---- MODULE Spec2Model ----
(***************************************************************************)
(* Team / task collaboration application: teams and memberships with       *)
(* object permissions, tasks, comments with @mentions, file uploads, the   *)
(* activity log and notifications.  Every request handler is one action    *)
(* that includes the model signal hooks it triggers.                       *)
(***************************************************************************)
EXTENDS Integers, Sequences, FiniteSets, TLC

(* ---------------------------------------------------------------------- *)
(* Bounds of the model                                                     *)
(* ---------------------------------------------------------------------- *)
MaxTeams == 2

MaxTasks == 1

MaxSaves == 2

MaxComments == 2

MaxFiles == 1

MaxLen == 6

MaxMails == 2

MaxSignups == 2

MaxAccounts == 3

MaxThread == 3

MaxInFlight == 2

(* ---------------------------------------------------------------------- *)
(* Registered accounts.  No handler modelled here adds or removes users.   *)
(* ---------------------------------------------------------------------- *)
Users == {1, 2, 3}

None == 0

OWNER == "owner"

MEMBER == "member"

ROLE_CHOICES == {OWNER, MEMBER}

TeamPerms == {"view_team", "change_team", "delete_team", "manage_members"}

OwnerTeamPerms == {"change_team", "delete_team", "manage_members"}

TaskPerms == {"view_task", "change_task", "delete_task"}

ASSIGNMENT == "assignment"

MENTION == "mention"

FILE_UPLOADED == "file_uploaded"

TEAM_ADDED == "team_added"

TODO == "TODO"

IN_PROGRESS == "IN_PROGRESS"

REVIEW == "REVIEW"

DONE == "DONE"

STATUS_CHOICES == {TODO, IN_PROGRESS, REVIEW, DONE}

VARIABLES
    Team,                 \* teams_team rows: pk -> [created_by]
    TeamMembership,       \* set of [team, user, role], unique on (team, user)
    UserObjectPermission, \* guardian object permission rows [user, perm, obj]
    Task,                 \* tasks_task rows: pk -> [team, created_by, assigned_to, status]
    Comment,              \* tasks_comment rows: pk -> [task, author, content, parent]
    FileUpload,           \* tasks_fileupload rows: pk -> [uploaded_by, content_type, object_id]
    ActivityLog,          \* sequence of [task, user, action], in timestamp order
    Notification,         \* sequence of notification rows, index = pk
    outbox,               \* notification pks handed to send_mail, in order
    last_id,              \* last primary key handed out, per table
    hook,                 \* position of a save whose post_save hook is running
    parser,               \* a call of MentionParser.extract_mentions
    txn,                  \* the atomic block of the connection and its snapshot
    run_on_commit,        \* callbacks registered with transaction.on_commit
    mail_log,             \* outcome logged by _send_email, per send_mail call
    smtp,                 \* TRUE while send_mail succeeds, FALSE while it raises
    response,             \* what the last request got back from a service call
    User,                 \* auth_user rows: pk -> [username, email, date_joined]
    SocialAccount,        \* socialaccount rows [user] linked by connect
    adapter_log,          \* levels logged by the last call of pre_social_login
    requests              \* membership requests between their checks and their writes

teamVars == <<Team, TeamMembership>>

taskVars == <<Task, ActivityLog>>

commentVars == <<Comment, FileUpload>>

notifVars == <<Notification, outbox>>

parserVars == <<parser>>

mailVars == <<txn, run_on_commit, mail_log, smtp>>

accountVars == <<User, SocialAccount, adapter_log>>

vars == <<Team, TeamMembership, UserObjectPermission, Task, Comment, FileUpload,
          ActivityLog, Notification, outbox, last_id, hook, parser,
          txn, run_on_commit, mail_log, smtp, response, User, SocialAccount,
          adapter_log, requests>>

(* ---------------------------------------------------------------------- *)
(* guardian shortcuts                                                      *)
(* ---------------------------------------------------------------------- *)
assign_perm(P, perm, user, obj) ==
    P \cup {[user |-> user, perm |-> perm, obj |-> obj]}

remove_perm(P, perm, user, obj) ==
    P \ {[user |-> user, perm |-> perm, obj |-> obj]}

has_perm(user, perm, obj) ==
    [user |-> user, perm |-> perm, obj |-> obj] \in UserObjectPermission

(* ---------------------------------------------------------------------- *)
(* Team membership queries                                                 *)
(* ---------------------------------------------------------------------- *)
Memberships(ms, t) ==
    {m \in ms : m.team = t}

IsMember(ms, t, u) ==
    \E m \in ms : m.team = t /\ m.user = u

IsOwner(ms, t, u) ==
    \E m \in ms : m.team = t /\ m.user = u /\ m.role = OWNER

owner_count_any_role(ms, t) ==
    Cardinality({m \in ms : m.team = t})

owner_count(ms, t) ==
    Cardinality({m \in ms : m.team = t /\ m.role = OWNER})

(* ---------------------------------------------------------------------- *)
(* Text and the mention parser                                             *)
(* ---------------------------------------------------------------------- *)
WordChars == {"a", "b"}

Alphabet == WordChars \cup {"@", " "}

\* A text argument: absent (None) or a string of characters.
Str(chars) ==
    [absent |-> FALSE, chars |-> chars]

AbsentText ==
    [absent |-> TRUE, chars |-> <<>>]

\* No save is between its row insert and the end of its post_save hook.
NoHook ==
    [model |-> "none", pk |-> 0, step |-> "idle"]

NoCall ==
    [state |-> "idle", text |-> AbsentText, result |-> <<>>]

\* No atomic block is open on the connection.
NoTransaction ==
    [active |-> FALSE, ended |-> "none",
     saved |-> [Task |-> <<>>, Comment |-> <<>>, ActivityLog |-> <<>>,
                Notification |-> <<>>, last_id |-> <<>>]]

\* The last request made no service call.
NoResponse ==
    [op |-> "none"]

\* The maximal run of word characters of s starting at position i (\w+).
RECURSIVE WordRun(_, _)
WordRun(s, i) ==
    IF i <= Len(s) /\ s[i] \in WordChars
    THEN <<s[i]>> \o WordRun(s, i + 1)
    ELSE <<>>

\* re.findall(r'@(\w+)', s) scanning from position i.
RECURSIVE findall(_, _)
findall(s, i) ==
    IF i > Len(s)
    THEN <<>>
    ELSE IF s[i] = "@" /\ WordRun(s, i + 1) # <<>>
         THEN <<WordRun(s, i + 1)>>
                  \o findall(s, i + 1 + Len(WordRun(s, i + 1)))
         ELSE findall(s, i + 1)

InSeq(x, q) ==
    \E i \in DOMAIN q : q[i] = x

unique_mentions_keep_all(matches, acc) ==
    matches

\* The loop over matches with the "seen" set.
RECURSIVE unique_mentions(_, _)
unique_mentions(matches, acc) ==
    IF matches = <<>>
    THEN acc
    ELSE IF InSeq(Head(matches), acc)
         THEN unique_mentions(Tail(matches), acc)
         ELSE unique_mentions(Tail(matches), Append(acc, Head(matches)))

extract_mentions(t) ==
    IF t.absent \/ t.chars = <<>>
    THEN <<>>
    ELSE unique_mentions(findall(t.chars, 1), <<>>)

Username(u) ==
    CASE u = 1 -> <<"a">>
      [] u = 2 -> <<"b">>
      [] OTHER -> <<"a", "b">>

\* The address of a registered account.
Email(u) ==
    CASE u = 1 -> "a@example.com"
      [] u = 2 -> "b@example.com"
      [] OTHER -> "ab@example.com"

\* The auth_user table holding the registered accounts, in order of
\* registration.
auth_user ==
    [u \in Users |->
        [username |-> Username(u), email |-> Email(u), date_joined |-> u]]

\* No transaction is open, every mail handed over was sent, no service call
\* was made and no third-party login was processed.
ServicesIdle ==
    /\ txn = NoTransaction
    /\ run_on_commit = <<>>
    /\ mail_log = [i \in DOMAIN outbox |->
                       [notification |-> outbox[i], sent |-> TRUE]]
    /\ smtp = TRUE
    /\ response = NoResponse
    /\ User = auth_user
    /\ SocialAccount = {}
    /\ adapter_log = <<>>
    /\ requests = {}

\* MentionParser.get_mentioned_users with a team.
get_mentioned_users(t, ms, team) ==
    {u \in Users : /\ InSeq(Username(u), extract_mentions(t))
                   /\ IsMember(ms, team, u)}

(* ---------------------------------------------------------------------- *)
(* post_save hooks of the teams app                                        *)
(* ---------------------------------------------------------------------- *)
assign_membership_permissions(P, m) ==
    LET P1 == assign_perm(P, "view_team", m.user, m.team)
    IN  IF m.role = OWNER
        THEN assign_perm(assign_perm(assign_perm(P1,
                 "change_team", m.user, m.team),
                 "delete_team", m.user, m.team),
                 "manage_members", m.user, m.team)
        ELSE P1

OwnerMembershipOf_default_role(t, creator) ==
    [team |-> t, user |-> creator, role |-> MEMBER]

OwnerMembershipOf(t, creator) ==
    [team |-> t, user |-> creator, role |-> OWNER]

create_team_owner_membership(P, t, creator) ==
    LET P1 == assign_membership_permissions(P, OwnerMembershipOf(t, creator))
    IN  assign_perm(assign_perm(assign_perm(assign_perm(P1,
            "view_team", creator, t),
            "change_team", creator, t),
            "delete_team", creator, t),
            "manage_members", creator, t)

(* ---------------------------------------------------------------------- *)
(* Requests of the teams app                                               *)
(* ---------------------------------------------------------------------- *)
team_create(u) ==
    LET t == last_id.team + 1
    IN  /\ Cardinality(DOMAIN Team) < MaxTeams
        /\ Team' = [x \in DOMAIN Team \cup {t} |->
                        IF x = t THEN [created_by |-> u] ELSE Team[x]]
        /\ last_id' = [last_id EXCEPT !.team = t]
        /\ TeamMembership' = TeamMembership \cup {OwnerMembershipOf(t, u)}
        /\ UserObjectPermission' =
               create_team_owner_membership(UserObjectPermission, t, u)
        /\ UNCHANGED <<taskVars, commentVars, notifVars, hook, parserVars,
                   mailVars, accountVars, requests>>
        /\ response' = NoResponse

add_member(req, t, u, role) ==
    /\ t \in DOMAIN Team
    /\ has_perm(req, "manage_members", t)
    /\ ~IsMember(TeamMembership, t, u)
    /\ LET m == [team |-> t, user |-> u, role |-> role]
       IN  /\ TeamMembership' = TeamMembership \cup {m}
           /\ UserObjectPermission' =
                  assign_membership_permissions(UserObjectPermission, m)
    /\ UNCHANGED <<Team, last_id, taskVars, commentVars, notifVars, hook,
                   parserVars,
                   mailVars, accountVars, requests>>
    /\ response' = NoResponse

RevokeTeamPerms_keeps_manage(P, u, t) ==
    remove_perm(remove_perm(remove_perm(P,
        "view_team", u, t),
        "change_team", u, t),
        "delete_team", u, t)

RevokeTeamPerms(P, u, t) ==
    remove_perm(remove_perm(remove_perm(remove_perm(P,
        "view_team", u, t),
        "change_team", u, t),
        "delete_team", u, t),
        "manage_members", u, t)

remove_member(req, t, u) ==
    /\ t \in DOMAIN Team
    /\ has_perm(req, "manage_members", t)
    /\ \E m \in TeamMembership :
          /\ m.team = t /\ m.user = u
          /\ ~(m.role = OWNER /\ owner_count(TeamMembership, t) <= 1)
          /\ UserObjectPermission' = RevokeTeamPerms(UserObjectPermission, u, t)
          /\ TeamMembership' = TeamMembership \ {m}
    /\ UNCHANGED <<Team, last_id, taskVars, commentVars, notifVars, hook,
                   parserVars,
                   mailVars, accountVars, requests>>
    /\ response' = NoResponse

UpdateRolePerms(P, u, t, new_role) ==
    IF new_role = OWNER
    THEN assign_perm(assign_perm(assign_perm(P,
             "change_team", u, t),
             "delete_team", u, t),
             "manage_members", u, t)
    ELSE remove_perm(remove_perm(remove_perm(P,
             "change_team", u, t),
             "delete_team", u, t),
             "manage_members", u, t)

change_member_role(req, t, u, new_role) ==
    /\ t \in DOMAIN Team
    /\ has_perm(req, "manage_members", t)
    /\ \E m \in TeamMembership :
          /\ m.team = t /\ m.user = u
          /\ ~(/\ m.role = OWNER
               /\ new_role = MEMBER
               /\ owner_count(TeamMembership, t) <= 1)
          /\ LET saved == [m EXCEPT !.role = new_role]
             IN  /\ TeamMembership' = (TeamMembership \ {m}) \cup {saved}
                 /\ UserObjectPermission' =
                        UpdateRolePerms(
                            assign_membership_permissions(
                                UserObjectPermission, saved),
                            u, t, new_role)
    /\ UNCHANGED <<Team, last_id, taskVars, commentVars, notifVars, hook,
                   parserVars,
                   mailVars, accountVars, requests>>
    /\ response' = NoResponse

(* ---------------------------------------------------------------------- *)
(* remove_member and change_member_role served by several workers.  The    *)
(* views open no atomic block and take no lock: a request reads (permission *)
(* check, membership, owner count) and writes later, and the requests of    *)
(* other workers run in between.                                            *)
(* ---------------------------------------------------------------------- *)
\* remove_member up to the owner-count check: the request has passed its
\* checks and has not written yet.
remove_member_checks(req, t, u) ==
    /\ t \in DOMAIN Team
    /\ Cardinality(requests) < MaxInFlight
    /\ has_perm(req, "manage_members", t)
    /\ \E m \in TeamMembership :
          /\ m.team = t /\ m.user = u
          /\ ~(m.role = OWNER /\ owner_count(TeamMembership, t) <= 1)
          /\ requests' = requests \cup
                 {[view |-> "remove_member", user |-> req, membership |-> m,
                   new_role |-> m.role]}
    /\ UNCHANGED <<teamVars, UserObjectPermission, taskVars, commentVars,
                   notifVars, last_id, hook, parserVars, mailVars, accountVars>>
    /\ response' = NoResponse

\* remove_member from the POST branch on: the four remove_perm calls and
\* membership.delete(), which deletes the row of the membership's primary key
\* if it is still there.
remove_member_writes(r) ==
    /\ r \in requests
    /\ r.view = "remove_member"
    /\ UserObjectPermission' =
           RevokeTeamPerms(UserObjectPermission, r.membership.user,
                           r.membership.team)
    /\ TeamMembership' =
           {m \in TeamMembership :
               ~(m.team = r.membership.team /\ m.user = r.membership.user)}
    /\ requests' = requests \ {r}
    /\ UNCHANGED <<Team, last_id, taskVars, commentVars, notifVars, hook,
                   parserVars, mailVars, accountVars>>
    /\ response' = NoResponse

\* change_member_role up to the owner-count check.
change_member_role_checks(req, t, u, new_role) ==
    /\ t \in DOMAIN Team
    /\ Cardinality(requests) < MaxInFlight
    /\ has_perm(req, "manage_members", t)
    /\ \E m \in TeamMembership :
          /\ m.team = t /\ m.user = u
          /\ ~(/\ m.role = OWNER
               /\ new_role = MEMBER
               /\ owner_count(TeamMembership, t) <= 1)
          /\ requests' = requests \cup
                 {[view |-> "change_member_role", user |-> req,
                   membership |-> m, new_role |-> new_role]}
    /\ UNCHANGED <<teamVars, UserObjectPermission, taskVars, commentVars,
                   notifVars, last_id, hook, parserVars, mailVars, accountVars>>
    /\ response' = NoResponse

\* change_member_role from form.save() on: the membership row is written with
\* the new role (save() inserts the row again if it was deleted meanwhile),
\* its post_save hook runs, and the owner permissions follow the new role.
change_member_role_writes(r) ==
    /\ r \in requests
    /\ r.view = "change_member_role"
    /\ LET saved == [r.membership EXCEPT !.role = r.new_role]
       IN  /\ TeamMembership' =
                  {m \in TeamMembership :
                      ~(m.team = saved.team /\ m.user = saved.user)}
                  \cup {saved}
           /\ UserObjectPermission' =
                  UpdateRolePerms(
                      assign_membership_permissions(UserObjectPermission, saved),
                      saved.user, saved.team, r.new_role)
    /\ requests' = requests \ {r}
    /\ UNCHANGED <<Team, last_id, taskVars, commentVars, notifVars, hook,
                   parserVars, mailVars, accountVars>>
    /\ response' = NoResponse

(* ---------------------------------------------------------------------- *)
(* Notification service                                                    *)
(* ---------------------------------------------------------------------- *)
NotificationRow(recipient, sender, notification_type, content_type, object_id) ==
    [recipient |-> recipient, sender |-> sender,
     notification_type |-> notification_type,
     content_type |-> content_type, object_id |-> object_id,
     is_read |-> FALSE]

create_notification(N, recipient, sender, notification_type, content_type, object_id) ==
    Append(N, NotificationRow(recipient, sender, notification_type,
                              content_type, object_id))

\* NotificationService.create_team_addition_notification.  No view, hook
\* or command calls it.
create_team_addition_notification(N, team, new_member, adder) ==
    create_notification(N, new_member, adder, TEAM_ADDED, "team", team)

\* transaction.get_connection().in_atomic_block
in_atomic_block_never ==
    FALSE

in_atomic_block ==
    txn.active

send_email_result_always_true(up) ==
    TRUE

\* _send_email: True when send_mail returned, False when it raised and the
\* failure was logged.
send_email_result(up) ==
    up

\* _send_email for the notifications ns, in order.
send_email(ns) ==
    /\ outbox' = outbox \o ns
    /\ mail_log' = mail_log \o
           [i \in DOMAIN ns |->
               [notification |-> ns[i], sent |-> send_email_result(smtp)]]

\* EmailService.send_notification_email for each notification of ns: inside
\* an atomic block _send_email is registered with on_commit, otherwise it
\* runs at once.
send_notification_email(ns) ==
    IF in_atomic_block
    THEN /\ run_on_commit' = run_on_commit \o
                [i \in DOMAIN ns |->
                    [fn |-> "_send_email", notification |-> ns[i]]]
         /\ UNCHANGED <<outbox, mail_log>>
    ELSE /\ send_email(ns)
         /\ UNCHANGED run_on_commit

on_commit_last_notification_only(ns) ==
    IF txn.active
    THEN /\ run_on_commit' = run_on_commit \o
                [i \in DOMAIN ns |->
                    [fn |-> "send_notification_email",
                     notification |-> ns[Len(ns)]]]
         /\ UNCHANGED <<outbox, mail_log>>
    ELSE send_notification_email(ns)

\* transaction.on_commit(lambda: EmailService.send_notification_email(n))
\* for each notification of ns: on_commit keeps the callback while an atomic
\* block is open and calls it at once otherwise.
on_commit_send_notification_email(ns) ==
    IF txn.active
    THEN /\ run_on_commit' = run_on_commit \o
                [i \in DOMAIN ns |->
                    [fn |-> "send_notification_email", notification |-> ns[i]]]
         /\ UNCHANGED <<outbox, mail_log>>
    ELSE send_notification_email(ns)

(* ---------------------------------------------------------------------- *)
(* pre_save / post_save hooks of Task                                      *)
(* ---------------------------------------------------------------------- *)
LogEntry(task, user, action) ==
    [task |-> task, user |-> user, action |-> action]

TaskSaves(log) ==
    Cardinality({i \in DOMAIN log :
                    log[i].action \in {"Task created", "Task updated"}})

capture_old_task_state(k) ==
    IF k \in DOMAIN Task THEN Task[k].assigned_to ELSE None

TaskCreationGrants_owner_only(ms, k, row) ==
    UNION {
        {[user |-> m.user, perm |-> "view_task", obj |-> k]} \cup
        (IF m.role = OWNER
         THEN {[user |-> m.user, perm |-> "change_task", obj |-> k],
               [user |-> m.user, perm |-> "delete_task", obj |-> k]}
         ELSE {})
        : m \in Memberships(ms, row.team)}

TaskCreationGrants(ms, k, row) ==
    UNION {
        {[user |-> m.user, perm |-> "view_task", obj |-> k]} \cup
        (IF m.role = OWNER \/ m.user = row.created_by
         THEN {[user |-> m.user, perm |-> "change_task", obj |-> k],
               [user |-> m.user, perm |-> "delete_task", obj |-> k]}
         ELSE {})
        : m \in Memberships(ms, row.team)}

NotifyOnCreate_self_too(row) ==
    row.assigned_to # None

NotifyOnCreate(row) ==
    row.assigned_to # None /\ row.assigned_to # row.created_by

NotifyOnUpdate_unchanged_too(old_assigned_to, row, updating_user) ==
    /\ row.assigned_to # None
    /\ row.assigned_to # updating_user

NotifyOnUpdate(old_assigned_to, row, updating_user) ==
    /\ row.assigned_to # None
    /\ old_assigned_to # row.assigned_to
    /\ row.assigned_to # updating_user

\* Task.save() of a new row together with log_task_creation_or_update.
TaskInsert(t, c, a) ==
    LET k   == last_id.task + 1
        row == [team |-> t, created_by |-> c, assigned_to |-> a,
                status |-> TODO]
    IN  /\ Cardinality(DOMAIN Task) < MaxTasks
        /\ Task' = [x \in DOMAIN Task \cup {k} |->
                        IF x = k THEN row ELSE Task[x]]
        /\ last_id' = [last_id EXCEPT !.task = k]
        /\ ActivityLog' = Append(ActivityLog, LogEntry(k, c, "Task created"))
        /\ UserObjectPermission' =
               UserObjectPermission \cup TaskCreationGrants(TeamMembership, k, row)
        /\ IF NotifyOnCreate(row)
           THEN /\ Notification' =
                       create_notification(Notification, a, c, ASSIGNMENT, "task", k)
                /\ send_notification_email(<<Len(Notification) + 1>>)
           ELSE UNCHANGED <<notifVars, run_on_commit, mail_log>>
        /\ UNCHANGED <<teamVars, commentVars, hook, parserVars,
                   txn, smtp, accountVars, requests>>
        /\ response' = NoResponse

\* Task.save() of an existing row together with capture_old_task_state and
\* log_task_creation_or_update.
TaskSave(k, row, updating_user) ==
    LET old_assigned_to == capture_old_task_state(k)
    IN  /\ TaskSaves(ActivityLog) < MaxSaves
        /\ Task' = [Task EXCEPT ![k] = row]
        /\ ActivityLog' =
               Append(ActivityLog, LogEntry(k, updating_user, "Task updated"))
        /\ IF NotifyOnUpdate(old_assigned_to, row, updating_user)
           THEN /\ Notification' =
                       create_notification(Notification, row.assigned_to,
                                           updating_user, ASSIGNMENT, "task", k)
                /\ send_notification_email(<<Len(Notification) + 1>>)
           ELSE UNCHANGED <<notifVars, run_on_commit, mail_log>>
        /\ UNCHANGED <<teamVars, UserObjectPermission, commentVars, last_id,
                       hook, parserVars,
                   txn, smtp, accountVars, requests>>
        /\ response' = NoResponse

(* ---------------------------------------------------------------------- *)
(* Requests of the tasks app                                               *)
(* ---------------------------------------------------------------------- *)
\* TaskForm of a new task: the team is one of the requester's teams and the
\* assignee choices are empty, so only "no assignee" validates.
task_create(req, t) ==
    /\ t \in DOMAIN Team
    /\ IsMember(TeamMembership, t, req)
    /\ TaskInsert(t, req, None)

\* Rows written through the ORM (the admin site, seed_data): any creator and
\* any assignee.
Task_objects_create(t, c, a) ==
    /\ t \in DOMAIN Team
    /\ TaskInsert(t, c, a)

can_edit(req, k) ==
    IsOwner(TeamMembership, Task[k].team, req) \/ Task[k].created_by = req

\* TaskForm.clean and the field querysets of an existing task.
TaskFormValid(req, k, t, a) ==
    /\ t \in DOMAIN Team
    /\ IsMember(TeamMembership, t, req)
    /\ a # None => /\ IsMember(TeamMembership, Task[k].team, a)
                   /\ IsMember(TeamMembership, t, a)

StatusFieldValid_done_is_final(old_status, status) ==
    status \in STATUS_CHOICES /\ (old_status = DONE => status = DONE)

\* Validation of the status field of TaskForm: the posted value is one of the
\* choices; the value the task has does not enter.
StatusFieldValid(old_status, status) ==
    status \in STATUS_CHOICES

task_update(req, k, t, a, status) ==
    /\ k \in DOMAIN Task
    /\ can_edit(req, k)
    /\ TaskFormValid(req, k, t, a)
    /\ StatusFieldValid(Task[k].status, status)
    /\ TaskSave(k, [Task[k] EXCEPT !.team = t, !.assigned_to = a,
                                  !.status = status], req)

\* A save without _updating_user (the admin change form).
TaskAdmin_change(k, a) ==
    /\ k \in DOMAIN Task
    /\ TaskSave(k, [Task[k] EXCEPT !.assigned_to = a], Task[k].created_by)

\* queryset.update(status=...) of the TaskAdmin bulk actions: one UPDATE
\* statement; Task.save() is not called and pre_save/post_save are not sent.
queryset_update(queryset, status) ==
    /\ queryset # {}
    /\ queryset \subseteq DOMAIN Task
    /\ Task' = [k \in DOMAIN Task |->
                   IF k \in queryset
                   THEN [Task[k] EXCEPT !.status = status]
                   ELSE Task[k]]
    /\ UNCHANGED <<teamVars, UserObjectPermission, ActivityLog, commentVars,
                   notifVars, last_id, hook, parserVars, mailVars,
                   accountVars, requests>>
    /\ response' = NoResponse

mark_as_done(queryset) ==
    queryset_update(queryset, DONE)

mark_as_in_progress(queryset) ==
    queryset_update(queryset, IN_PROGRESS)

mark_as_todo(queryset) ==
    queryset_update(queryset, TODO)

(* ---------------------------------------------------------------------- *)
(* Comments                                                                *)
(* ---------------------------------------------------------------------- *)
RECURSIVE lstrip(_)
lstrip(s) ==
    IF s # <<>> /\ Head(s) = " " THEN lstrip(Tail(s)) ELSE s

RECURSIVE rstrip(_)
rstrip(s) ==
    IF s # <<>> /\ s[Len(s)] = " "
    THEN rstrip(SubSeq(s, 1, Len(s) - 1))
    ELSE s

strip(s) ==
    rstrip(lstrip(s))

\* CommentForm: content is required and is stored stripped.
CommentFormValid(content) ==
    strip(content) # <<>>

\* The orders in which a set of rows can be iterated.
Orders(S) ==
    {q \in [1..Cardinality(S) -> S] :
        \A i, j \in 1..Cardinality(S) : i # j => q[i] # q[j]}

MentionRecipients_with_author(content, ms, team, author) ==
    get_mentioned_users(Str(content), ms, team)

MentionRecipients(content, ms, team, author) ==
    {u \in get_mentioned_users(Str(content), ms, team) : u # author}

\* NotificationService.create_mention_notifications: the rows appended for a
\* comment, in the order the mentioned users are iterated.
create_mention_notifications(order, author, c) ==
    [i \in DOMAIN order |->
        NotificationRow(order[i], author, MENTION, "comment", c)]

\* Comment.save() of a new row together with log_comment_creation.
CommentInsert(k, author, content, parent) ==
    LET c == last_id.comment + 1
        row == [task |-> k, author |-> author, content |-> content,
                parent |-> parent]
    IN  /\ Cardinality(DOMAIN Comment) < MaxComments
        /\ Comment' = [x \in DOMAIN Comment \cup {c} |->
                          IF x = c THEN row ELSE Comment[x]]
        /\ last_id' = [last_id EXCEPT !.comment = c]
        /\ ActivityLog' = Append(ActivityLog, LogEntry(k, author, "Comment added"))
        /\ \E order \in Orders(MentionRecipients(content, TeamMembership,
                                                 Task[k].team, author)) :
              /\ Notification' =
                     Notification \o create_mention_notifications(order, author, c)
              /\ on_commit_send_notification_email(
                     [i \in DOMAIN order |-> Len(Notification) + i])
        /\ UNCHANGED <<teamVars, UserObjectPermission, Task, FileUpload, hook,
                       parserVars,
                   txn, smtp, accountVars, requests>>
        /\ response' = NoResponse

comment_create(req, k, content) ==
    /\ k \in DOMAIN Task
    /\ IsMember(TeamMembership, Task[k].team, req)
    /\ CommentFormValid(content)
    /\ CommentInsert(k, req, strip(content), None)

comment_reply(req, parent, content) ==
    /\ parent \in DOMAIN Comment
    /\ IsMember(TeamMembership, Task[Comment[parent].task].team, req)
    /\ CommentFormValid(content)
    /\ CommentInsert(Comment[parent].task, req, strip(content), parent)

(* ---------------------------------------------------------------------- *)
(* File uploads                                                            *)
(* ---------------------------------------------------------------------- *)
FileUploadRecipients_with_uploader(row, uploader) ==
    {row.created_by} \cup
    (IF row.assigned_to # None THEN {row.assigned_to} ELSE {})

FileUploadRecipients(row, uploader) ==
    ({row.created_by} \cup
     (IF row.assigned_to # None THEN {row.assigned_to} ELSE {}))
        \ {uploader}

\* FileUpload.save() of a new row attached to a task together with
\* log_file_upload.
file_upload_task(req, k) ==
    LET f == last_id.file + 1
        row == [uploaded_by |-> req, content_type |-> "task", object_id |-> k]
    IN  /\ k \in DOMAIN Task
        /\ IsMember(TeamMembership, Task[k].team, req)
        /\ Cardinality(DOMAIN FileUpload) < MaxFiles
        /\ FileUpload' = [x \in DOMAIN FileUpload \cup {f} |->
                             IF x = f THEN row ELSE FileUpload[x]]
        /\ last_id' = [last_id EXCEPT !.file = f]
        /\ ActivityLog' = Append(ActivityLog, LogEntry(k, req, "File uploaded"))
        /\ \E order \in Orders(FileUploadRecipients(Task[k], req)) :
              /\ Notification' =
                     Notification \o
                     [i \in DOMAIN order |->
                         NotificationRow(order[i], req, FILE_UPLOADED,
                                         "fileupload", f)]
              /\ on_commit_send_notification_email(
                     [i \in DOMAIN order |-> Len(Notification) + i])
        /\ UNCHANGED <<teamVars, UserObjectPermission, Task, Comment, hook,
                       parserVars,
                   txn, smtp, accountVars, requests>>
        /\ response' = NoResponse

\* FileUpload.save() of a new row attached to a comment: log_file_upload
\* does nothing for it.
file_upload_comment(req, c) ==
    LET f == last_id.file + 1
        row == [uploaded_by |-> req, content_type |-> "comment", object_id |-> c]
    IN  /\ c \in DOMAIN Comment
        /\ IsMember(TeamMembership, Task[Comment[c].task].team, req)
        /\ Cardinality(DOMAIN FileUpload) < MaxFiles
        /\ FileUpload' = [x \in DOMAIN FileUpload \cup {f} |->
                             IF x = f THEN row ELSE FileUpload[x]]
        /\ last_id' = [last_id EXCEPT !.file = f]
        /\ UNCHANGED <<teamVars, UserObjectPermission, taskVars, Comment,
                       notifVars, hook, parserVars,
                   mailVars, accountVars, requests>>
        /\ response' = NoResponse

(* ---------------------------------------------------------------------- *)
(* Deletion: the CASCADE foreign keys and the post_delete hooks            *)
(* ---------------------------------------------------------------------- *)
\* A table without the rows of the primary keys in gone.
Without(table, gone) ==
    [x \in DOMAIN table \ gone |-> table[x]]

RECURSIVE Collected(_, _)
Collected_direct_replies(C, roots) ==
    roots \cup {c \in DOMAIN C : C[c].parent \in roots}

\* The comments the deletion collector gathers from the comments in roots
\* through Comment.parent (on_delete=CASCADE): replies, replies of replies, ...
Collected(C, roots) ==
    LET more == roots \cup {c \in DOMAIN C : C[c].parent \in roots}
    IN  IF more = roots THEN roots ELSE Collected(C, more)

\* delete_task_files: the files attached to task k.
delete_task_files(F, k) ==
    {f \in DOMAIN F : F[f].content_type = "task" /\ F[f].object_id = k}

delete_comment_files_skipped(F, cs) ==
    {}

\* delete_comment_files, sent once for each deleted comment of cs: the files
\* attached to these comments.
delete_comment_files(F, cs) ==
    {f \in DOMAIN F : F[f].content_type = "comment" /\ F[f].object_id \in cs}

\* What Model.delete() returns: the number of rows the collector deleted,
\* per model (rows deleted by the post_delete hooks are not counted).
Deleted(tasks, comments, logs) ==
    [Task |-> tasks, Comment |-> comments, ActivityLog |-> logs]

\* task.delete(): the task, its comments (Comment.task) with their replies
\* (Comment.parent) and its activity logs (ActivityLog.task) are deleted in
\* one atomic block, and post_delete is sent for the task and for each of the
\* comments.
Task_delete(k) ==
    LET comments == Collected(Comment,
                              {c \in DOMAIN Comment : Comment[c].task = k})
    IN  /\ Task' = Without(Task, {k})
        /\ Comment' = Without(Comment, comments)
        /\ ActivityLog' = SelectSeq(ActivityLog, LAMBDA e : e.task # k)
        /\ FileUpload' = Without(FileUpload,
                                 delete_task_files(FileUpload, k) \cup
                                 delete_comment_files(FileUpload, comments))

\* comment.delete(): the comment and its replies at any depth, and
\* post_delete for each of them.
Comment_delete(c) ==
    LET comments == Collected(Comment, {c})
    IN  /\ Comment' = Without(Comment, comments)
        /\ FileUpload' = Without(FileUpload,
                                 delete_comment_files(FileUpload, comments))

can_delete(req, k) ==
    IsOwner(TeamMembership, Task[k].team, req) \/ Task[k].created_by = req

task_delete(req, k) ==
    /\ k \in DOMAIN Task
    /\ can_delete(req, k)
    /\ Task_delete(k)
    /\ response' =
           [op |-> "task_delete", user |-> req, pk |-> k,
            deleted |->
                Deleted(1,
                        Cardinality(DOMAIN Comment) - Cardinality(DOMAIN Comment'),
                        Len(ActivityLog) - Len(ActivityLog'))]
    /\ UNCHANGED <<teamVars, UserObjectPermission, notifVars, last_id, hook,
                   parserVars, mailVars, accountVars, requests>>

comment_delete(req, c) ==
    /\ c \in DOMAIN Comment
    /\ \/ Comment[c].author = req
       \/ IsOwner(TeamMembership, Task[Comment[c].task].team, req)
    /\ Comment_delete(c)
    /\ response' =
           [op |-> "comment_delete", user |-> req, pk |-> c,
            deleted |->
                Deleted(0,
                        Cardinality(DOMAIN Comment) - Cardinality(DOMAIN Comment'),
                        0)]
    /\ UNCHANGED <<teamVars, UserObjectPermission, taskVars, notifVars,
                   last_id, hook, parserVars, mailVars, accountVars, requests>>

\* The task a file belongs to, directly or through its comment.
TaskOfFile(f) ==
    IF FileUpload[f].content_type = "task"
    THEN FileUpload[f].object_id
    ELSE Comment[FileUpload[f].object_id].task

file_delete(req, f) ==
    /\ f \in DOMAIN FileUpload
    /\ \/ FileUpload[f].content_type = "task"
          /\ FileUpload[f].object_id \in DOMAIN Task
       \/ FileUpload[f].content_type = "comment"
          /\ FileUpload[f].object_id \in DOMAIN Comment
    /\ \/ FileUpload[f].uploaded_by = req
       \/ IsOwner(TeamMembership, Task[TaskOfFile(f)].team, req)
    /\ FileUpload' = Without(FileUpload, {f})
    /\ response' = [op |-> "file_delete", user |-> req, pk |-> f,
                    deleted |-> Deleted(0, 0, 0)]
    /\ UNCHANGED <<teamVars, UserObjectPermission, taskVars, Comment,
                   notifVars, last_id, hook, parserVars, mailVars,
                   accountVars, requests>>

(* ---------------------------------------------------------------------- *)
(* team_create and task_create statement by statement.  No atomic block is *)
(* opened by the views or the hooks, so every statement is committed on    *)
(* its own and is visible to the other requests at once.                   *)
(* ---------------------------------------------------------------------- *)
\* team.save(): the INSERT of the Team row; post_save is sent after it.
Team_save(u) ==
    LET t == last_id.team + 1
    IN  /\ hook = NoHook
        /\ Cardinality(DOMAIN Team) < MaxTeams
        /\ Team' = [x \in DOMAIN Team \cup {t} |->
                        IF x = t THEN [created_by |-> u] ELSE Team[x]]
        /\ last_id' = [last_id EXCEPT !.team = t]
        /\ hook' = [model |-> "team", pk |-> t, step |-> "membership"]
        /\ UNCHANGED <<TeamMembership, UserObjectPermission, taskVars,
                       commentVars, notifVars, parserVars,
                   mailVars, accountVars, requests>>
        /\ response' = NoResponse

\* create_team_owner_membership: TeamMembership.objects.create(...).
hook_create_membership ==
    /\ hook.model = "team" /\ hook.step = "membership"
    /\ TeamMembership' = TeamMembership \cup
           {OwnerMembershipOf(hook.pk, Team[hook.pk].created_by)}
    /\ hook' = [hook EXCEPT !.step = "membership_perms"]
    /\ UNCHANGED <<Team, UserObjectPermission, taskVars, commentVars,
                   notifVars, last_id, parserVars,
                   mailVars, accountVars, requests>>
    /\ response' = NoResponse

\* assign_membership_permissions, the post_save hook of the new membership.
hook_membership_perms ==
    /\ hook.model = "team" /\ hook.step = "membership_perms"
    /\ UserObjectPermission' =
           assign_membership_permissions(UserObjectPermission,
               OwnerMembershipOf(hook.pk, Team[hook.pk].created_by))
    /\ hook' = [hook EXCEPT !.step = "owner_perms"]
    /\ UNCHANGED <<teamVars, taskVars, commentVars, notifVars, last_id,
                   parserVars,
                   mailVars, accountVars, requests>>
    /\ response' = NoResponse

\* create_team_owner_membership: the four assign_perm calls.
hook_owner_perms ==
    /\ hook.model = "team" /\ hook.step = "owner_perms"
    /\ UserObjectPermission' =
           {[user |-> Team[hook.pk].created_by, perm |-> p, obj |-> hook.pk] :
               p \in TeamPerms} \cup UserObjectPermission
    /\ hook' = NoHook
    /\ UNCHANGED <<teamVars, taskVars, commentVars, notifVars, last_id,
                   parserVars,
                   mailVars, accountVars, requests>>
    /\ response' = NoResponse

\* task.save() in task_create: the INSERT of the Task row.
Task_save(req, t) ==
    LET k == last_id.task + 1
    IN  /\ hook = NoHook
        /\ t \in DOMAIN Team
        /\ IsMember(TeamMembership, t, req)
        /\ Cardinality(DOMAIN Task) < MaxTasks
        /\ Task' = [x \in DOMAIN Task \cup {k} |->
                        IF x = k
                        THEN [team |-> t, created_by |-> req,
                              assigned_to |-> None, status |-> TODO]
                        ELSE Task[x]]
        /\ last_id' = [last_id EXCEPT !.task = k]
        /\ hook' = [model |-> "task", pk |-> k, step |-> "log"]
        /\ UNCHANGED <<teamVars, UserObjectPermission, ActivityLog,
                       commentVars, notifVars, parserVars,
                   mailVars, accountVars, requests>>
        /\ response' = NoResponse

\* log_task_creation_or_update: ActivityLog.objects.create(...).
hook_task_log ==
    /\ hook.model = "task" /\ hook.step = "log"
    /\ ActivityLog' = Append(ActivityLog,
           LogEntry(hook.pk, Task[hook.pk].created_by, "Task created"))
    /\ hook' = [hook EXCEPT !.step = "perms"]
    /\ UNCHANGED <<teamVars, UserObjectPermission, Task, commentVars,
                   notifVars, last_id, parserVars,
                   mailVars, accountVars, requests>>
    /\ response' = NoResponse

\* log_task_creation_or_update: the assign_perm loop over the memberships.
hook_task_perms ==
    /\ hook.model = "task" /\ hook.step = "perms"
    /\ UserObjectPermission' = UserObjectPermission \cup
           TaskCreationGrants(TeamMembership, hook.pk, Task[hook.pk])
    /\ hook' = NoHook
    /\ UNCHANGED <<teamVars, taskVars, commentVars, notifVars, last_id,
                   parserVars,
                   mailVars, accountVars, requests>>
    /\ response' = NoResponse

\* A statement of the hook raises; the view's "except Exception" reports the
\* error and renders the form again.
hook_raises ==
    /\ hook # NoHook
    /\ hook' = NoHook
    /\ UNCHANGED <<teamVars, UserObjectPermission, taskVars, commentVars,
                   notifVars, last_id, parserVars,
                   mailVars, accountVars, requests>>
    /\ response' = NoResponse

(* ---------------------------------------------------------------------- *)
(* Reading notifications                                                   *)
(* ---------------------------------------------------------------------- *)
OwnNotification_any_recipient(N, notification_id, user) ==
    notification_id \in DOMAIN N

\* Notification.objects.get(id=notification_id, recipient=user) finds a row.
OwnNotification(N, notification_id, user) ==
    /\ notification_id \in DOMAIN N
    /\ N[notification_id].recipient = user

UnreadOf_everyone(N, user) ==
    {i \in DOMAIN N : ~N[i].is_read}

\* Notification.objects.filter(recipient=user, is_read=False).
UnreadOf(N, user) ==
    {i \in DOMAIN N : N[i].recipient = user /\ ~N[i].is_read}

get_unread_count(N, user) ==
    Cardinality(UnreadOf(N, user))

\* NotificationService.mark_as_read; the result is the pk of the row that
\* is returned, or None.
mark_as_read(notification_id, user) ==
    /\ IF OwnNotification(Notification, notification_id, user)
       THEN /\ Notification' =
                   [Notification EXCEPT ![notification_id].is_read = TRUE]
            /\ response' = [op |-> "mark_as_read",
                            notification_id |-> notification_id,
                            user |-> user, result |-> notification_id]
       ELSE /\ Notification' = Notification
            /\ response' = [op |-> "mark_as_read",
                            notification_id |-> notification_id,
                            user |-> user, result |-> None]
    /\ UNCHANGED <<teamVars, UserObjectPermission, taskVars, commentVars,
                   outbox, last_id, hook, parserVars, mailVars, accountVars, requests>>

mark_notification_read(req, notification_id) ==
    mark_as_read(notification_id, req)

\* NotificationService.mark_all_as_read; the result is the number of rows
\* the UPDATE matched.
mark_all_as_read(user) ==
    /\ Notification' =
           [i \in DOMAIN Notification |->
               IF i \in UnreadOf(Notification, user)
               THEN [Notification[i] EXCEPT !.is_read = TRUE]
               ELSE Notification[i]]
    /\ response' = [op |-> "mark_all_as_read", user |-> user,
                    result |-> Cardinality(UnreadOf(Notification, user))]
    /\ UNCHANGED <<teamVars, UserObjectPermission, taskVars, commentVars,
                   outbox, last_id, hook, parserVars, mailVars, accountVars, requests>>

\* The view on a POST request.
mark_all_read(req) ==
    mark_all_as_read(req)

\* The view unread_count.
unread_count(req) ==
    /\ response' = [op |-> "get_unread_count", user |-> req,
                    result |-> get_unread_count(Notification, req)]
    /\ UNCHANGED <<teamVars, UserObjectPermission, taskVars, commentVars,
                   notifVars, last_id, hook, parserVars, mailVars,
                   accountVars, requests>>

(* ---------------------------------------------------------------------- *)
(* Requests of the admin site: changeform_view saves the object inside an  *)
(* atomic block, which is committed when the view returns and rolled back  *)
(* when it raises.                                                         *)
(* ---------------------------------------------------------------------- *)
\* The rows an admin change view of Task or Comment can write.
Database ==
    [Task |-> Task, Comment |-> Comment, ActivityLog |-> ActivityLog,
     Notification |-> Notification, last_id |-> last_id]

changeform_view_enter ==
    /\ ~txn.active
    /\ txn' = [active |-> TRUE, ended |-> "none", saved |-> Database]
    /\ UNCHANGED <<teamVars, UserObjectPermission, taskVars, commentVars,
                   notifVars, last_id, hook, parserVars, run_on_commit,
                   mail_log, smtp, accountVars, requests>>
    /\ response' = NoResponse

\* TaskAdmin: save_model of an existing task inside the atomic block.
TaskAdmin_save_model(k, a) ==
    /\ txn.active
    /\ TaskAdmin_change(k, a)

\* CommentAdmin: save_model of a new comment inside the atomic block; the
\* admin form offers every user as author.
CommentAdmin_save_model(k, author, content) ==
    /\ txn.active
    /\ k \in DOMAIN Task
    /\ CommentFormValid(content)
    /\ CommentInsert(k, author, strip(content), None)

\* The atomic block is left without an exception: COMMIT, then the on_commit
\* callbacks run in order of registration, with no atomic block open, so each
\* of them ends in _send_email.
changeform_view_commit ==
    /\ txn.active
    /\ txn' = [NoTransaction EXCEPT !.ended = "commit"]
    /\ send_email([i \in DOMAIN run_on_commit |-> run_on_commit[i].notification])
    /\ run_on_commit' = <<>>
    /\ UNCHANGED <<teamVars, UserObjectPermission, taskVars, commentVars,
                   Notification, last_id, hook, parserVars, smtp, accountVars, requests>>
    /\ response' = NoResponse

\* The atomic block is left by an exception: ROLLBACK, and the on_commit
\* callbacks are dropped.
changeform_view_rollback ==
    /\ txn.active
    /\ txn' = [NoTransaction EXCEPT !.ended = "rollback"]
    /\ Task' = txn.saved.Task
    /\ Comment' = txn.saved.Comment
    /\ ActivityLog' = txn.saved.ActivityLog
    /\ Notification' = txn.saved.Notification
    /\ last_id' = txn.saved.last_id
    /\ run_on_commit' = <<>>
    /\ UNCHANGED <<teamVars, UserObjectPermission, FileUpload, outbox, hook,
                   parserVars, mail_log, smtp, accountVars, requests>>
    /\ response' = NoResponse

\* The mail server goes down or comes back.
smtp_changes ==
    /\ smtp' = ~smtp
    /\ UNCHANGED <<teamVars, UserObjectPermission, taskVars, commentVars,
                   notifVars, last_id, hook, parserVars, txn, run_on_commit,
                   mail_log, accountVars, requests>>
    /\ response' = NoResponse

\* A call of EmailService.send_notification_email(notification) and what it
\* returns.
EmailService_send_notification_email(n) ==
    /\ n \in DOMAIN Notification
    /\ send_notification_email(<<n>>)
    /\ response' = [op |-> "send_notification_email", notification |-> n,
                    result |-> IF in_atomic_block
                               THEN TRUE
                               ELSE send_email_result(smtp)]
    /\ UNCHANGED <<teamVars, UserObjectPermission, taskVars, commentVars,
                   Notification, last_id, hook, parserVars, txn, smtp,
                   accountVars, requests>>

(* ---------------------------------------------------------------------- *)
(* Accounts: username generation                                           *)
(* ---------------------------------------------------------------------- *)
\* range(1, 1000): the stop of the numeric suffixes.
SuffixStop == 1000

Suffixes_from_two ==
    2..(SuffixStop - 1)

Suffixes ==
    1..(SuffixStop - 1)

Digit(d) ==
    CASE d = 0 -> "0" [] d = 1 -> "1" [] d = 2 -> "2" [] d = 3 -> "3"
      [] d = 4 -> "4" [] d = 5 -> "5" [] d = 6 -> "6" [] d = 7 -> "7"
      [] d = 8 -> "8" [] OTHER -> "9"

\* str(i) of a natural number.
RECURSIVE Decimal(_)
Decimal(i) ==
    IF i < 10 THEN <<Digit(i)>> ELSE Append(Decimal(i \div 10), Digit(i % 10))

\* The number n written with at least width digits ("%02d").
RECURSIVE ZeroPad(_, _)
ZeroPad(n, width) ==
    IF width <= 1
    THEN Decimal(n)
    ELSE IF Len(Decimal(n)) >= width
         THEN Decimal(n)
         ELSE <<"0">> \o ZeroPad(n, width - 1)

\* datetime.strftime('%Y%m%d%H%M%S')
strftime(now) ==
    ZeroPad(now.year, 4) \o ZeroPad(now.month, 2) \o ZeroPad(now.day, 2)
    \o ZeroPad(now.hour, 2) \o ZeroPad(now.minute, 2) \o ZeroPad(now.second, 2)

\* username[:n]
Prefix(s, n) ==
    SubSeq(s, 1, IF Len(s) < n THEN Len(s) ELSE n)

\* f'{username}{i}'
SuffixedName(username, i) ==
    username \o Decimal(i)

\* f'{username[:15]}_{timestamp}'
fallback_username(username, now) ==
    Prefix(username, 15) \o <<"_">> \o strftime(now)

\* The usernames of the auth_user table.
Usernames(U) ==
    {U[i].username : i \in DOMAIN U}

Minimum(S) ==
    CHOOSE x \in S : \A y \in S : x <= y

\* CustomAccountAdapter.generate_unique_username from the cleaned and
\* truncated username on: the name itself, else the first free numeric
\* suffix in order, else the timestamp name.
unique_username(names, username, now) ==
    IF username \notin names
    THEN username
    ELSE LET free == {i \in Suffixes : SuffixedName(username, i) \notin names}
         IN  IF free # {}
             THEN SuffixedName(username, Minimum(free))
             ELSE fallback_username(username, now)

\* A call of generate_unique_username whose cleaned username is c, at time
\* now.
generate_unique_username(c, now) ==
    /\ response' = [op |-> "generate_unique_username", username |-> c,
                    now |-> now,
                    result |-> unique_username(Usernames(User), c, now)]
    /\ UNCHANGED <<teamVars, UserObjectPermission, taskVars, commentVars,
                   notifVars, last_id, hook, parserVars, mailVars,
                   accountVars, requests>>

\* The address of an account that signed up through a third-party login.
SignupEmail == "new@example.com"

Signups(U) ==
    {i \in DOMAIN U : U[i].email = SignupEmail}

\* save_user: the new account is stored under the generated username; the
\* unique index on username refuses a name that is taken.
save_user ==
    /\ response.op = "generate_unique_username"
    /\ response.result \notin Usernames(User)
    /\ Cardinality(Signups(User)) < MaxSignups
    /\ User' = Append(User, [username |-> response.result,
                             email |-> SignupEmail,
                             date_joined |-> Len(User) + 1])
    /\ response' = NoResponse
    /\ UNCHANGED <<teamVars, UserObjectPermission, taskVars, commentVars,
                   notifVars, last_id, hook, parserVars, mailVars,
                   SocialAccount, adapter_log, requests>>

(* ---------------------------------------------------------------------- *)
(* Accounts: linking a third-party login                                   *)
(* ---------------------------------------------------------------------- *)
\* The provider set up by setup_google_oauth.
Providers ==
    {"google"}

\* sociallogin.is_existing: the social account is stored and has a user.
is_existing(SA, sociallogin) ==
    \E sa \in SA : sa.uid = sociallogin.uid

AssertedEmail_never(sociallogin) ==
    ""

\* The email pre_social_login works with; "" stands for None and for the
\* empty string, which "if not email" treats alike.
AssertedEmail(sociallogin) ==
    IF sociallogin.provider = "google" THEN sociallogin.email ELSE ""

\* User.objects.filter(email=email)
AccountsWithEmail(U, email) ==
    {i \in DOMAIN U : U[i].email = email}

Earliest_any(U, matches) ==
    matches

\* The rows order_by('date_joined').first() can return: date_joined is the
\* only sort key, so rows that share the smallest value come in any order.
Earliest(U, matches) ==
    {u \in matches : \A v \in matches : U[u].date_joined <= U[v].date_joined}

\* sociallogin.connect(request, existing_user)
connect(SA, sociallogin, user) ==
    SA \cup {[user |-> user, uid |-> sociallogin.uid]}

\* CustomSocialAccountAdapter.pre_social_login.
pre_social_login(sociallogin) ==
    LET email   == AssertedEmail(sociallogin)
        matches == AccountsWithEmail(User, email)
        called  == [op |-> "pre_social_login", sociallogin |-> sociallogin,
                    is_existing |-> is_existing(SocialAccount, sociallogin)]
    IN  /\ IF is_existing(SocialAccount, sociallogin)
           THEN /\ adapter_log' = <<>>
                /\ response' = called
                /\ UNCHANGED SocialAccount
           ELSE IF email = ""
           THEN /\ adapter_log' = <<"warning">>
                /\ response' = called
                /\ UNCHANGED SocialAccount
           ELSE IF Cardinality(matches) = 1
           THEN \E existing_user \in matches :
                   /\ SocialAccount' =
                          connect(SocialAccount, sociallogin, existing_user)
                   /\ adapter_log' = <<"info">>
                   /\ response' = called
           ELSE IF matches = {}
           THEN /\ adapter_log' = <<"info">>
                /\ response' = called
                /\ UNCHANGED SocialAccount
           ELSE \E existing_user \in Earliest(User, matches) :
                   /\ SocialAccount' =
                          connect(SocialAccount, sociallogin, existing_user)
                   /\ adapter_log' = <<"error", "info">>
                   /\ response' = called
        /\ UNCHANGED <<teamVars, UserObjectPermission, taskVars, commentVars,
                       notifVars, last_id, hook, parserVars, mailVars, User,
                       requests>>

(* ---------------------------------------------------------------------- *)
(* A call of the mention parser                                            *)
(* ---------------------------------------------------------------------- *)
extract_mentions_return ==
    /\ parser.state = "called"
    /\ parser' = [parser EXCEPT !.state = "returned",
                                !.result = extract_mentions(parser.text)]
    /\ UNCHANGED <<teamVars, UserObjectPermission, taskVars, commentVars,
                   notifVars, last_id, hook, mailVars, accountVars, requests>>
    /\ response' = NoResponse

(* ---------------------------------------------------------------------- *)
(* Specifications                                                          *)
(* ---------------------------------------------------------------------- *)
Init ==
    /\ Team = <<>>
    /\ TeamMembership = {}
    /\ UserObjectPermission = {}
    /\ Task = <<>>
    /\ Comment = <<>>
    /\ FileUpload = <<>>
    /\ ActivityLog = <<>>
    /\ Notification = <<>>
    /\ outbox = <<>>
    /\ last_id = [team |-> 0, task |-> 0, comment |-> 0, file |-> 0]
    /\ hook = NoHook
    /\ ServicesIdle
    /\ parser = NoCall

NextTeams ==
    \/ \E u \in Users : team_create(u)
    \/ \E req \in Users, t \in DOMAIN Team, u \in Users, role \in ROLE_CHOICES :
          add_member(req, t, u, role)
    \/ \E req \in Users, t \in DOMAIN Team, u \in Users :
          remove_member(req, t, u)
    \/ \E req \in Users, t \in DOMAIN Team, u \in Users, role \in ROLE_CHOICES :
          change_member_role(req, t, u, role)

SpecTeams == Init /\ [][NextTeams]_vars

Assignees == Users \cup {None}

NextMembers ==
    \/ \E req \in Users, t \in DOMAIN Team, u \in Users, role \in ROLE_CHOICES :
          add_member(req, t, u, role)
    \/ \E req \in Users, t \in DOMAIN Team, u \in Users :
          remove_member(req, t, u)
    \/ \E req \in Users, t \in DOMAIN Team, u \in Users, role \in ROLE_CHOICES :
          change_member_role(req, t, u, role)

NextTasks ==
    \/ \E req \in Users, t \in DOMAIN Team : task_create(req, t)
    \/ \E t \in DOMAIN Team, c \in Users, a \in Assignees :
          Task_objects_create(t, c, a)
    \/ \E req \in Users, k \in DOMAIN Task, t \in DOMAIN Team, a \in Assignees :
          task_update(req, k, t, a, Task[k].status)
    \/ \E k \in DOMAIN Task, a \in Assignees : TaskAdmin_change(k, a)

InitOneTeam ==
    \E u \in Users :
        /\ Team = (1 :> [created_by |-> u])
        /\ TeamMembership = {OwnerMembershipOf(1, u)}
        /\ UserObjectPermission = create_team_owner_membership({}, 1, u)
        /\ Task = <<>>
        /\ Comment = <<>>
        /\ FileUpload = <<>>
        /\ ActivityLog = <<>>
        /\ Notification = <<>>
        /\ outbox = <<>>
        /\ last_id = [team |-> 1, task |-> 0, comment |-> 0, file |-> 0]
        /\ hook = NoHook
        /\ ServicesIdle
        /\ parser = NoCall

Spec ==
    InitOneTeam /\ [][NextMembers
                      \/ (\E req \in Users, t \in DOMAIN Team : task_create(req, t))]_vars

SpecAssign ==
    InitOneTeam /\ [][(\E req \in Users, t \in DOMAIN Team, u \in Users,
                          role \in ROLE_CHOICES : add_member(req, t, u, role))
                      \/ NextTasks]_vars

Texts(n) ==
    UNION {[1..m -> Alphabet] : m \in 0..n}

InitMentions ==
    /\ Team = <<>>
    /\ TeamMembership = {}
    /\ UserObjectPermission = {}
    /\ Task = <<>>
    /\ Comment = <<>>
    /\ FileUpload = <<>>
    /\ ActivityLog = <<>>
    /\ Notification = <<>>
    /\ outbox = <<>>
    /\ last_id = [team |-> 0, task |-> 0, comment |-> 0, file |-> 0]
    /\ hook = NoHook
    /\ ServicesIdle
    /\ \E t \in {AbsentText} \cup {Str(c) : c \in Texts(MaxLen)} :
          parser = [state |-> "called", text |-> t, result |-> <<>>]

SpecMentions == InitMentions /\ [][extract_mentions_return]_vars

\* The object permissions that the membership rows ms carry.
MembershipGrants(ms) ==
    UNION {assign_membership_permissions({}, m) : m \in ms}

\* One team, created by some user, to which any of the other users were
\* added with any role, and one task, written when those members were in
\* place, by creator c with assignee a; when commented, the creator of the
\* team has posted the comment "ab" on the task.
TeamWithTask(creator, roles, c, a, commented) ==
    LET ms  == {OwnerMembershipOf(1, creator)} \cup
               {[team |-> 1, user |-> u, role |-> roles[u]] :
                   u \in {v \in DOMAIN roles : roles[v] # "none"}}
        row == [team |-> 1, created_by |-> c, assigned_to |-> a,
                status |-> TODO]
    IN  /\ Team = (1 :> [created_by |-> creator])
        /\ TeamMembership = ms
        /\ UserObjectPermission =
               MembershipGrants(ms) \cup TaskCreationGrants(ms, 1, row)
        /\ Task = (1 :> row)
        /\ Comment =
               (IF commented
                THEN (1 :> [task |-> 1, author |-> creator,
                            content |-> <<"a", "b">>, parent |-> None])
                ELSE <<>>)
        /\ FileUpload = <<>>
        /\ ActivityLog =
               <<LogEntry(1, c, "Task created")>> \o
               (IF commented
                THEN <<LogEntry(1, creator, "Comment added")>>
                ELSE <<>>)
        /\ Notification =
               (IF NotifyOnCreate(row)
                THEN <<NotificationRow(a, c, ASSIGNMENT, "task", 1)>>
                ELSE <<>>)
        /\ outbox = (IF NotifyOnCreate(row) THEN <<1>> ELSE <<>>)
        /\ last_id = [team |-> 1, task |-> 1,
                      comment |-> (IF commented THEN 1 ELSE 0), file |-> 0]
        /\ hook = NoHook
        /\ ServicesIdle
        /\ parser = NoCall

\* The task was created through task_create by the creator of the team.
InitComments ==
    \E creator \in Users :
        \E roles \in [Users \ {creator} -> {"none", MEMBER, OWNER}] :
            TeamWithTask(creator, roles, creator, None, FALSE)

\* "@ab", " @a @a", "@b@a", "ab" and a blank comment.
CommentTexts ==
    { <<"@", "a", "b">>,
      <<" ", "@", "a", " ", "@", "a">>,
      <<"@", "b", "@", "a">>,
      <<"a", "b">>,
      <<" ">> }

SpecComments ==
    InitComments
    /\ [][\/ \E req \in Users, k \in DOMAIN Task, content \in CommentTexts :
                comment_create(req, k, content)
          \/ \E req \in Users, parent \in DOMAIN Comment,
                content \in CommentTexts :
                comment_reply(req, parent, content)]_vars

\* The task was written through the ORM with any creator and assignee, and
\* carries one comment.
InitFiles ==
    \E creator \in Users :
        \E roles \in [Users \ {creator} -> {"none", MEMBER, OWNER}] :
            \E c \in Users, a \in Assignees :
                TeamWithTask(creator, roles, c, a, TRUE)

SpecFiles ==
    InitFiles
    /\ [][\/ \E req \in Users, k \in DOMAIN Task : file_upload_task(req, k)
          \/ \E req \in Users, c \in DOMAIN Comment :
                file_upload_comment(req, c)]_vars

NextHooks ==
    \/ \E u \in Users : Team_save(u)
    \/ hook_create_membership
    \/ hook_membership_perms
    \/ hook_owner_perms
    \/ \E req \in Users, t \in DOMAIN Team : Task_save(req, t)
    \/ hook_task_log
    \/ hook_task_perms
    \/ hook_raises

SpecHooks == Init /\ [][NextHooks]_vars

\* A team of all users with one task, written by the creator of the team
\* with any assignee.
InitNotifications ==
    \E creator \in Users, a \in Assignees :
        TeamWithTask(creator, [u \in Users \ {creator} |-> MEMBER],
                     creator, a, FALSE)

NextNotifications ==
    \/ \E req \in Users, k \in DOMAIN Task : file_upload_task(req, k)
    \/ \E req \in Users, id \in 1..(Len(Notification) + 1) :
          mark_notification_read(req, id)
    \/ \E req \in Users : mark_all_read(req)
    \/ \E req \in Users : unread_count(req)

SpecNotifications == InitNotifications /\ [][NextNotifications]_vars

\* A team of all users, created by user 2, with one unassigned task of
\* user 2.
InitMail ==
    TeamWithTask(2, [u \in Users \ {2} |-> MEMBER], 2, None, FALSE)

\* "@a".
MailTexts ==
    { <<"@", "a">> }

\* Fewer than MaxMails mails were handed over or are waiting for a commit.
MailCapacity ==
    Len(outbox) + Len(run_on_commit) < MaxMails

\* The connection serves one request at a time: a view starts when no atomic
\* block is open.
NextMail ==
    \/ changeform_view_enter
    \/ \E k \in DOMAIN Task, a \in Assignees :
          MailCapacity /\ TaskAdmin_save_model(k, a)
    \/ \E k \in DOMAIN Task, author \in Users, content \in MailTexts :
          MailCapacity /\ CommentAdmin_save_model(k, author, content)
    \/ changeform_view_commit
    \/ changeform_view_rollback
    \/ \E req \in Users, k \in DOMAIN Task, a \in Assignees :
          MailCapacity /\ ~txn.active /\ task_update(req, k, Task[k].team, a,
                                                   Task[k].status)
    \/ \E req \in Users, k \in DOMAIN Task, content \in MailTexts :
          MailCapacity /\ ~txn.active /\ comment_create(req, k, content)
    \/ smtp_changes
    \/ \E n \in DOMAIN Notification :
          MailCapacity /\ EmailService_send_notification_email(n)

SpecMail == InitMail /\ [][NextMail]_vars

\* The cleaned usernames asked for: "a" and "a1".
CleanedUsernames ==
    { <<"a">>, <<"a", "1">> }

\* Two calls within one second and one a second later.
Clock ==
    { [year |-> 2026, month |-> 1, day |-> 2, hour |-> 3, minute |-> 4,
       second |-> sec] : sec \in {5, 6} }

\* How many of the names "a", "a1", ..., "a999" are taken, from the front.
ChainLengths ==
    {0, 1, 2, 3, 11, 12, 101, SuffixStop - 1, SuffixStop}

\* The names "a", "a1", ... of the first k slots, without the slot hole.
ChainNames(c, k, hole) ==
    [i \in 1..(IF hole < k THEN k - 1 ELSE k) |->
        LET slot == IF hole < k /\ i - 1 >= hole THEN i ELSE i - 1
        IN  IF slot = 0 THEN c ELSE SuffixedName(c, slot)]

\* Accounts named along the chain of "a", possibly with a free slot in it,
\* possibly with an account that carries the timestamp name of the first
\* clock value.
InitUsernames ==
    \E k \in ChainLengths, hole \in {1, 2, SuffixStop}, stamped \in BOOLEAN :
        LET names == ChainNames(<<"a">>, k, hole) \o
                     (IF stamped
                      THEN <<fallback_username(
                                <<"a">>,
                                [year |-> 2026, month |-> 1, day |-> 2,
                                 hour |-> 3, minute |-> 4, second |-> 5])>>
                      ELSE <<>>)
        IN  /\ Team = <<>>
            /\ TeamMembership = {}
            /\ UserObjectPermission = {}
            /\ Task = <<>>
            /\ Comment = <<>>
            /\ FileUpload = <<>>
            /\ ActivityLog = <<>>
            /\ Notification = <<>>
            /\ outbox = <<>>
            /\ last_id = [team |-> 0, task |-> 0, comment |-> 0, file |-> 0]
            /\ hook = NoHook
            /\ parser = NoCall
            /\ txn = NoTransaction
            /\ run_on_commit = <<>>
            /\ mail_log = <<>>
            /\ smtp = TRUE
            /\ response = NoResponse
            /\ User = [i \in DOMAIN names |->
                          [username |-> names[i], email |-> "",
                           date_joined |-> i]]
            /\ SocialAccount = {}
            /\ adapter_log = <<>>
            /\ requests = {}
    /\ requests = {}

NextUsernames ==
    \/ \E c \in CleanedUsernames, now \in Clock : generate_unique_username(c, now)
    \/ save_user

SpecUsernames == InitUsernames /\ [][NextUsernames]_vars

\* The addresses of the accounts and of the assertions; "" is no address.
Emails ==
    {"x@example.com", "y@example.com"}

\* The identity assertions: the account id at the provider, the email (or
\* none) and the verified_email flag of extra_data.
SocialLogins ==
    [provider : Providers, uid : {"g1", "g2"}, email : Emails \cup {""},
     verified_email : BOOLEAN]

\* Up to MaxAccounts accounts "u1", "u2", ... with any of the addresses and
\* creation dates: the email column is not unique and creation dates can
\* coincide.
InitSocialLogin ==
    \E n \in 0..MaxAccounts :
        \E emails \in [1..n -> Emails], dates \in [1..n -> {1, 2}] :
            /\ Team = <<>>
            /\ TeamMembership = {}
            /\ UserObjectPermission = {}
            /\ Task = <<>>
            /\ Comment = <<>>
            /\ FileUpload = <<>>
            /\ ActivityLog = <<>>
            /\ Notification = <<>>
            /\ outbox = <<>>
            /\ last_id = [team |-> 0, task |-> 0, comment |-> 0, file |-> 0]
            /\ hook = NoHook
            /\ parser = NoCall
            /\ txn = NoTransaction
            /\ run_on_commit = <<>>
            /\ mail_log = <<>>
            /\ smtp = TRUE
            /\ response = NoResponse
            /\ User = [i \in 1..n |->
                          [username |-> SuffixedName(<<"u">>, i),
                           email |-> emails[i], date_joined |-> dates[i]]]
            /\ SocialAccount = {}
            /\ adapter_log = <<>>
            /\ requests = {}
    /\ requests = {}

NextSocialLogin ==
    \E sociallogin \in SocialLogins : pre_social_login(sociallogin)

SpecSocialLogin == InitSocialLogin /\ [][NextSocialLogin]_vars

\* One team with the owner 1 and the member 2; tasks created by 2; up to
\* MaxThread comments written by 2, each on a task or in reply to an earlier
\* comment (a reply belongs to the task of its parent); up to MaxFiles files
\* uploaded by 2, each attached to a task or to a comment.  The log holds
\* what the hooks wrote for these rows.
InitDelete ==
    LET ms == {OwnerMembershipOf(1, 1), [team |-> 1, user |-> 2, role |-> MEMBER]}
        row == [team |-> 1, created_by |-> 2, assigned_to |-> None,
                status |-> TODO]
        ks == 1..MaxTasks
    IN  \E n \in 0..MaxThread, m \in 0..MaxFiles :
        \E parent \in [1..n -> {None} \cup 1..n], task \in [1..n -> ks],
           content_type \in [1..m -> {"task", "comment"}],
           object_id \in [1..m -> ks \cup 1..n] :
            /\ \A c \in 1..n :
                  parent[c] # None =>
                      /\ parent[c] < c
                      /\ task[c] = task[parent[c]]
            /\ \A f \in 1..m :
                  object_id[f] \in (IF content_type[f] = "task" THEN ks ELSE 1..n)
            /\ Team = (1 :> [created_by |-> 1])
            /\ TeamMembership = ms
            /\ UserObjectPermission =
                   MembershipGrants(ms) \cup
                   UNION {TaskCreationGrants(ms, k, row) : k \in ks}
            /\ Task = [k \in ks |-> row]
            /\ Comment = [c \in 1..n |->
                             [task |-> task[c], author |-> 2,
                              content |-> <<"a">>, parent |-> parent[c]]]
            /\ FileUpload = [f \in 1..m |->
                                [uploaded_by |-> 2,
                                 content_type |-> content_type[f],
                                 object_id |-> object_id[f]]]
            /\ ActivityLog =
                   [k \in ks |-> LogEntry(k, 2, "Task created")] \o
                   [c \in 1..n |-> LogEntry(task[c], 2, "Comment added")] \o
                   SelectSeq([f \in 1..m |->
                                 LogEntry(IF content_type[f] = "task"
                                          THEN object_id[f] ELSE None,
                                          2, "File uploaded")],
                             LAMBDA e : e.task # None)
            /\ Notification = <<>>
            /\ outbox = <<>>
            /\ last_id = [team |-> 1, task |-> MaxTasks, comment |-> n,
                          file |-> m]
            /\ hook = NoHook
            /\ ServicesIdle
            /\ parser = NoCall

NextDelete ==
    \/ \E req \in Users, k \in DOMAIN Task : task_delete(req, k)
    \/ \E req \in Users, c \in DOMAIN Comment : comment_delete(req, c)
    \/ \E req \in Users, f \in DOMAIN FileUpload : file_delete(req, f)

SpecDelete == InitDelete /\ [][NextDelete]_vars

\* Primary keys are never handed out twice: a deleted task is not followed by
\* a new one once MaxTasks keys are used.
TaskKeysLeft ==
    last_id.task < MaxTasks

CommentKeysLeft ==
    last_id.comment < MaxComments

FileKeysLeft ==
    last_id.file < MaxFiles

\* Everything that writes or deletes tasks and their log: the views of the
\* tasks app and the bulk actions of the Task admin.
NextLog ==
    \/ \E req \in Users, t \in DOMAIN Team : TaskKeysLeft /\ task_create(req, t)
    \/ \E req \in Users, k \in DOMAIN Task, status \in STATUS_CHOICES :
          task_update(req, k, Task[k].team, Task[k].assigned_to, status)
    \/ \E req \in Users, k \in DOMAIN Task :
          comment_create(req, k, <<"a">>)
    \/ \E req \in Users, k \in DOMAIN Task : file_upload_task(req, k)
    \/ \E req \in Users, k \in DOMAIN Task : task_delete(req, k)
    \/ \E queryset \in SUBSET DOMAIN Task : mark_as_done(queryset)
    \/ \E queryset \in SUBSET DOMAIN Task : mark_as_in_progress(queryset)
    \/ \E queryset \in SUBSET DOMAIN Task : mark_as_todo(queryset)

SpecLog == InitOneTeam /\ [][NextLog]_vars

\* One team created by user 1 with any of the other users as owners or
\* members, and one task created by a member of the team.
InitStatus ==
    \E roles \in [Users \ {1} -> {OWNER, MEMBER, "none"}], c \in Users :
        /\ IF c = 1 THEN TRUE ELSE roles[c] # "none"
        /\ TeamWithTask(1, roles, c, None, FALSE)

\* Everything that writes Task.status: task_update and the bulk actions of
\* the Task admin.
NextStatus ==
    \/ \E req \in Users, k \in DOMAIN Task, status \in STATUS_CHOICES :
          task_update(req, k, Task[k].team, Task[k].assigned_to, status)
    \/ \E queryset \in SUBSET DOMAIN Task : mark_as_done(queryset)
    \/ \E queryset \in SUBSET DOMAIN Task : mark_as_in_progress(queryset)
    \/ \E queryset \in SUBSET DOMAIN Task : mark_as_todo(queryset)

SpecStatus == InitStatus /\ [][NextStatus]_vars

\* The requests that write memberships and tasks: the membership views,
\* task_create and task_update.
NextRequests ==
    \/ NextMembers
    \/ \E req \in Users, t \in DOMAIN Team : task_create(req, t)
    \/ \E req \in Users, k \in DOMAIN Task, t \in DOMAIN Team, a \in Assignees :
          task_update(req, k, t, a, Task[k].status)

SpecRequests == InitOneTeam /\ [][NextRequests]_vars

\* One team whose creator has added members; removals and role changes come
\* from several workers.
NextRace ==
    \/ \E req \in Users, t \in DOMAIN Team, u \in Users, role \in ROLE_CHOICES :
          add_member(req, t, u, role)
    \/ \E req \in Users, t \in DOMAIN Team, u \in Users :
          remove_member_checks(req, t, u)
    \/ \E r \in requests : remove_member_writes(r)
    \/ \E req \in Users, t \in DOMAIN Team, u \in Users, role \in ROLE_CHOICES :
          change_member_role_checks(req, t, u, role)
    \/ \E r \in requests : change_member_role_writes(r)

SpecRace == InitOneTeam /\ [][NextRace]_vars

\* One team of all three users, created by user 1, with a task created by
\* the member 2; members comment and upload, members are removed, and tasks,
\* comments and files are edited and deleted by whoever asks.
InitOutsiders ==
    TeamWithTask(1, [u \in Users \ {1} |-> MEMBER], 2, None, FALSE)

NextOutsiders ==
    \/ \E req \in Users, t \in DOMAIN Team, u \in Users :
          remove_member(req, t, u)
    \/ \E req \in Users, k \in DOMAIN Task :
          CommentKeysLeft /\ comment_create(req, k, <<"a">>)
    \/ \E req \in Users, k \in DOMAIN Task :
          FileKeysLeft /\ file_upload_task(req, k)
    \/ \E req \in Users, c \in DOMAIN Comment :
          FileKeysLeft /\ file_upload_comment(req, c)
    \/ \E req \in Users, k \in DOMAIN Task, t \in DOMAIN Team :
          task_update(req, k, t, Task[k].assigned_to, Task[k].status)
    \/ \E req \in Users, k \in DOMAIN Task : task_delete(req, k)
    \/ \E req \in Users, c \in DOMAIN Comment : comment_delete(req, c)
    \/ \E req \in Users, f \in DOMAIN FileUpload : file_delete(req, f)

SpecOutsiders == InitOutsiders /\ [][NextOutsiders]_vars

\* A comment that mentions the users "a" and "ab".
DispatchTexts ==
    { <<"@", "a", "@", "a", "b">> }

\* The writes that create notifications, in the views (no atomic block) and
\* in the admin change views (inside one, committed or rolled back), while
\* the mail server goes down and comes back.
NextDispatch ==
    \/ changeform_view_enter
    \/ \E k \in DOMAIN Task, a \in Assignees :
          MailCapacity /\ TaskAdmin_save_model(k, a)
    \/ \E k \in DOMAIN Task, author \in Users, content \in DispatchTexts :
          MailCapacity /\ CommentAdmin_save_model(k, author, content)
    \/ changeform_view_commit
    \/ changeform_view_rollback
    \/ \E req \in Users, k \in DOMAIN Task, a \in Assignees :
          MailCapacity /\ ~txn.active /\ task_update(req, k, Task[k].team, a,
                                                   Task[k].status)
    \/ \E req \in Users, k \in DOMAIN Task, content \in DispatchTexts :
          MailCapacity /\ ~txn.active /\ comment_create(req, k, content)
    \/ \E req \in Users, k \in DOMAIN Task :
          MailCapacity /\ ~txn.active /\ file_upload_task(req, k)
    \/ smtp_changes

SpecDispatch == InitMail /\ [][NextDispatch]_vars

(* ---------------------------------------------------------------------- *)
(* Properties                                                              *)
(* ---------------------------------------------------------------------- *)
Holds(u, perm, obj) ==
    [user |-> u, perm |-> perm, obj |-> obj] \in UserObjectPermission

HoldsNext(u, perm, obj) ==
    [user |-> u, perm |-> perm, obj |-> obj] \in UserObjectPermission'

\* C1: the step that inserts a Team row leaves an owner membership of the
\* creator and all four team permissions of the creator on the new team.
C1_CreatorBecomesOwner ==
    [][\A t \in (DOMAIN Team') \ (DOMAIN Team) :
          /\ [team |-> t, user |-> Team'[t].created_by, role |-> OWNER]
                 \in TeamMembership'
          /\ \A p \in TeamPerms : HoldsNext(Team'[t].created_by, p, t)]_vars

C1_Witness ==
    \E t \in DOMAIN Team :
        /\ IsOwner(TeamMembership, t, Team[t].created_by)
        /\ \A p \in TeamPerms : Holds(Team[t].created_by, p, t)

\* C2: after any sequence of team_create, add_member, change_member_role and
\* remove_member, a user holds view_team on a team iff the user is a member
\* of it, and holds change_team, delete_team and manage_members iff the
\* user's membership has role owner.
C2_TeamPermsLockstep ==
    \A t \in DOMAIN Team : \A u \in Users :
        /\ Holds(u, "view_team", t) <=> IsMember(TeamMembership, t, u)
        /\ \A p \in OwnerTeamPerms :
              Holds(u, p, t) <=> IsOwner(TeamMembership, t, u)

\* A team whose creator was removed and that has a plain member: members
\* were added, and one was removed.
C2_Witness ==
    \E t \in DOMAIN Team :
        /\ ~IsMember(TeamMembership, t, Team[t].created_by)
        /\ \E u \in Users :
              IsMember(TeamMembership, t, u) /\ ~IsOwner(TeamMembership, t, u)

\* C3: every user holding view_task, change_task or delete_task on a task is
\* a member of the task's team.
C3_NoOrphanTaskPerms ==
    \A k \in DOMAIN Task : \A u \in Users : \A p \in TaskPerms :
        Holds(u, p, k) => IsMember(TeamMembership, Task[k].team, u)

\* C4: the step that inserts a Task row whose creator is a member of the
\* task's team leaves view_task with exactly the members of the team, and
\* change_task and delete_task with exactly the members that are owners or
\* the creator.
C4_TaskCreationGrants ==
    [][\A k \in (DOMAIN Task') \ (DOMAIN Task) :
          LET t == Task'[k].team
              c == Task'[k].created_by
          IN  IsMember(TeamMembership', t, c) =>
                \A u \in Users :
                    /\ HoldsNext(u, "view_task", k)
                           <=> IsMember(TeamMembership', t, u)
                    /\ \A p \in {"change_task", "delete_task"} :
                           HoldsNext(u, p, k)
                               <=> /\ IsMember(TeamMembership', t, u)
                                   /\ (IsOwner(TeamMembership', t, u) \/ u = c)]_vars

\* A task created by a plain member while another user was a member without
\* being owner or creator.
C4_Witness ==
    \E k \in DOMAIN Task :
        LET c == Task[k].created_by
        IN  /\ Holds(c, "change_task", k)
            /\ ~IsOwner(TeamMembership, Task[k].team, c)
            /\ IsMember(TeamMembership, Task[k].team, c)
            /\ \E u \in Users \ {c} :
                   /\ Holds(u, "view_task", k)
                   /\ ~Holds(u, "change_task", k)
                   /\ IsMember(TeamMembership, Task[k].team, u)

\* C5: a new team or task row and the grants of its post_save hook appear
\* together: no state shows a team without the creator's owner membership
\* and four permissions or a task without the view_task grants of the
\* team's members, neither while the hook runs nor after it failed.
C5_InsertAtomicWithGrants ==
    /\ \A t \in DOMAIN Team :
          /\ IsOwner(TeamMembership, t, Team[t].created_by)
          /\ \A p \in TeamPerms : Holds(Team[t].created_by, p, t)
    /\ \A k \in DOMAIN Task : \A u \in Users :
          IsMember(TeamMembership, Task[k].team, u) => Holds(u, "view_task", k)

\* C8: the step that inserts a Task row appends exactly one assignment
\* notification (recipient the assignee, sender the creator, target the task)
\* when the assignee is set and is not the creator, and none otherwise.
C8_AssignmentOnCreate ==
    [][\A k \in (DOMAIN Task') \ (DOMAIN Task) :
          LET c == Task'[k].created_by
              a == Task'[k].assigned_to
          IN  IF a # None /\ a # c
              THEN Notification' =
                       Append(Notification,
                              [recipient |-> a, sender |-> c,
                               notification_type |-> ASSIGNMENT,
                               content_type |-> "task", object_id |-> k,
                               is_read |-> FALSE])
              ELSE Notification' = Notification]_vars

C8_Witness ==
    /\ \E k \in DOMAIN Task :
          /\ Task[k].assigned_to \notin {None, Task[k].created_by}
          /\ \E i \in DOMAIN Notification :
                /\ Notification[i].recipient = Task[k].assigned_to
                /\ Notification[i].sender = Task[k].created_by
                /\ Notification[i].object_id = k
    /\ \A i \in DOMAIN ActivityLog : ActivityLog[i].action = "Task created"

\* C9: the step that saves an existing task appends exactly one assignment
\* notification for the new assignee when the assignee after the save is set,
\* differs from the stored one and is not the updating user, and none
\* otherwise.
C9_AssignmentOnUpdate ==
    [][\A k \in DOMAIN Task :
          (/\ DOMAIN Task' = DOMAIN Task
           /\ Len(ActivityLog') = Len(ActivityLog) + 1
           /\ ActivityLog'[Len(ActivityLog')].action = "Task updated"
           /\ ActivityLog'[Len(ActivityLog')].task = k)
          => LET old == Task[k].assigned_to
                 new == Task'[k].assigned_to
                 upd == ActivityLog'[Len(ActivityLog')].user
             IN  IF new # None /\ new # old /\ new # upd
                 THEN Notification' =
                          Append(Notification,
                                 [recipient |-> new, sender |-> upd,
                                  notification_type |-> ASSIGNMENT,
                                  content_type |-> "task", object_id |-> k,
                                  is_read |-> FALSE])
                 ELSE Notification' = Notification]_vars

\* An update by somebody other than the creator reassigned the task and the
\* new assignee was notified.
C9_Witness ==
    \E i \in DOMAIN Notification : \E j \in DOMAIN ActivityLog :
        /\ ActivityLog[j].action = "Task updated"
        /\ Notification[i].notification_type = ASSIGNMENT
        /\ Notification[i].object_id = ActivityLog[j].task
        /\ Notification[i].sender = ActivityLog[j].user
        /\ Notification[i].sender # Task[ActivityLog[j].task].created_by
        /\ Notification[i].recipient = Task[ActivityLog[j].task].assigned_to

\* Name n stands at position i of s as a mention: s[i] is '@', n is the run
\* of word characters that follows it, and the run ends there.
IsMentionAt(s, i, n) ==
    /\ i \in 1..Len(s)
    /\ s[i] = "@"
    /\ Len(n) >= 1
    /\ i + Len(n) <= Len(s)
    /\ \A j \in 1..Len(n) : s[i + j] = n[j] /\ n[j] \in WordChars
    /\ (i + Len(n) = Len(s) \/ s[i + Len(n) + 1] \notin WordChars)

FirstMentionAt(s, n) ==
    CHOOSE i \in 1..Len(s) :
        /\ IsMentionAt(s, i, n)
        /\ \A j \in 1..(i - 1) : ~IsMentionAt(s, j, n)

Mentioned(n, s) ==
    \E i \in 1..Len(s) : IsMentionAt(s, i, n)

NewNotifications ==
    SubSeq(Notification', Len(Notification) + 1, Len(Notification'))

\* C6: the step that inserts a comment of author a on a task of team t
\* appends one mention notification (sender a, target the comment) for each
\* user whose username is mentioned in the text, who is a member of t and is
\* not a, and appends nothing else.
C6_MentionNotifications ==
    [][\A c \in (DOMAIN Comment') \ (DOMAIN Comment) :
          LET row == Comment'[c]
              t   == Task[row.task].team
              R   == {u \in Users : /\ Mentioned(Username(u), row.content)
                                    /\ IsMember(TeamMembership, t, u)
                                    /\ u # row.author}
          IN  /\ SubSeq(Notification', 1, Len(Notification)) = Notification
              /\ Len(NewNotifications) = Cardinality(R)
              /\ \A u \in R : \E i \in DOMAIN NewNotifications :
                    NewNotifications[i] =
                        [recipient |-> u, sender |-> row.author,
                         notification_type |-> MENTION,
                         content_type |-> "comment", object_id |-> c,
                         is_read |-> FALSE]
              /\ \A i \in DOMAIN NewNotifications :
                    NewNotifications[i].recipient \in R]_vars

NotificationsFor(u, content_type, object_id) ==
    {i \in DOMAIN Notification :
        /\ Notification[i].recipient = u
        /\ Notification[i].content_type = content_type
        /\ Notification[i].object_id = object_id}

\* A comment that mentions a member twice, who got one notification, and a
\* comment that mentions its author or a non-member, who got none.
C6_Witness ==
    /\ \E c \in DOMAIN Comment : \E u \in Users \ {Comment[c].author} :
          /\ \E i, j \in 1..Len(Comment[c].content) :
                /\ i # j
                /\ IsMentionAt(Comment[c].content, i, Username(u))
                /\ IsMentionAt(Comment[c].content, j, Username(u))
          /\ Cardinality(NotificationsFor(u, "comment", c)) = 1
    /\ \E c \in DOMAIN Comment : \E v \in Users :
          /\ Mentioned(Username(v), Comment[c].content)
          /\ v = Comment[c].author
          /\ NotificationsFor(v, "comment", c) = {}
    /\ \E c \in DOMAIN Comment : \E v \in Users :
          /\ Mentioned(Username(v), Comment[c].content)
          /\ ~IsMember(TeamMembership, Task[Comment[c].task].team, v)
          /\ NotificationsFor(v, "comment", c) = {}

\* C7: extract_mentions returns the names that follow an '@' as maximal runs
\* of word characters, each once, in the order of their first occurrence;
\* for an empty or absent text it returns the empty list.
C7_ExtractMentions ==
    parser.state = "returned" =>
        LET s == parser.text.chars
            r == parser.result
        IN  /\ (parser.text.absent \/ s = <<>>) => r = <<>>
            /\ \A p, q \in DOMAIN r : p # q => r[p] # r[q]
            /\ \A p \in DOMAIN r : Mentioned(r[p], s)
            /\ \A i \in 1..Len(s) : \A j \in (i + 1)..Len(s) :
                  IsMentionAt(s, i, SubSeq(s, i + 1, j))
                      => InSeq(SubSeq(s, i + 1, j), r)
            /\ \A p, q \in DOMAIN r :
                  p < q => FirstMentionAt(s, r[p]) < FirstMentionAt(s, r[q])

\* A text with two names of which the first is repeated after the second.
C7_Witness ==
    /\ parser.state = "returned"
    /\ Len(parser.result) = 2
    /\ \E i, j, k \in 1..Len(parser.text.chars) :
          /\ i < j /\ j < k
          /\ IsMentionAt(parser.text.chars, i, parser.result[1])
          /\ IsMentionAt(parser.text.chars, j, parser.result[2])
          /\ IsMentionAt(parser.text.chars, k, parser.result[1])

\* C10: the step that inserts a file attached to a task, uploaded by p,
\* appends one file_uploaded notification (sender p, target the file) for
\* each user of {task creator, task assignee} other than p, and nothing else.
C10_FileUploadNotifications ==
    [][\A f \in (DOMAIN FileUpload') \ (DOMAIN FileUpload) :
          FileUpload'[f].content_type = "task" =>
            LET k == FileUpload'[f].object_id
                p == FileUpload'[f].uploaded_by
                R == {u \in Users : /\ u \in {Task[k].created_by,
                                              Task[k].assigned_to}
                                    /\ u # p}
            IN  /\ SubSeq(Notification', 1, Len(Notification)) = Notification
                /\ Len(NewNotifications) = Cardinality(R)
                /\ \A u \in R : \E i \in DOMAIN NewNotifications :
                      NewNotifications[i] =
                          [recipient |-> u, sender |-> p,
                           notification_type |-> FILE_UPLOADED,
                           content_type |-> "fileupload", object_id |-> f,
                           is_read |-> FALSE]
                /\ \A i \in DOMAIN NewNotifications :
                      NewNotifications[i].recipient \in R]_vars

\* A file uploaded by a third user to a task whose creator and assignee
\* differ: both were notified, the uploader was not.
C10_Witness ==
    \E f \in DOMAIN FileUpload :
        LET k == FileUpload[f].object_id
            p == FileUpload[f].uploaded_by
        IN  /\ FileUpload[f].content_type = "task"
            /\ Task[k].assigned_to \notin {None, Task[k].created_by, p}
            /\ Task[k].created_by # p
            /\ Cardinality(NotificationsFor(Task[k].created_by, "fileupload", f)) = 1
            /\ Cardinality(NotificationsFor(Task[k].assigned_to, "fileupload", f)) = 1
            /\ NotificationsFor(p, "fileupload", f) = {}

\* C11: the step in which a user who was not a member of an existing team
\* becomes one appends a team_added notification addressed to the new
\* member, sent by a user who could manage the members of the team, with the
\* team as target.
C11_TeamAdditionNotification ==
    [][\A m \in TeamMembership' \ TeamMembership :
          (m.team \in DOMAIN Team /\ ~IsMember(TeamMembership, m.team, m.user))
          => \E i \in DOMAIN NewNotifications :
                /\ NewNotifications[i].recipient = m.user
                /\ NewNotifications[i].notification_type = TEAM_ADDED
                /\ NewNotifications[i].content_type = "team"
                /\ NewNotifications[i].object_id = m.team
                /\ Holds(NewNotifications[i].sender, "manage_members", m.team)]_vars

\* C12: a call mark_as_read(id, user) sets is_read on notification id and
\* returns it when the row exists and is addressed to user; otherwise it
\* returns None and changes no notification; in both cases every other
\* notification is left as it was.
C12_MarkAsReadScoped ==
    [][(response'.op = "mark_as_read" /\ response' # response) =>
          LET id == response'.notification_id
              u  == response'.user
          IN  /\ DOMAIN Notification' = DOMAIN Notification
              /\ \A i \in DOMAIN Notification :
                    i # id => Notification'[i] = Notification[i]
              /\ IF id \in DOMAIN Notification /\ Notification[id].recipient = u
                 THEN /\ response'.result = id
                      /\ Notification'[id] =
                             [Notification[id] EXCEPT !.is_read = TRUE]
                 ELSE /\ response'.result = None
                      /\ Notification' = Notification]_vars

\* A user asked to mark an unread notification of somebody else: nothing
\* was returned and the notification is still unread, while another
\* notification has been read by its recipient.
C12_Witness ==
    /\ response.op = "mark_as_read"
    /\ response.result = None
    /\ response.notification_id \in DOMAIN Notification
    /\ Notification[response.notification_id].recipient # response.user
    /\ ~Notification[response.notification_id].is_read
    /\ \E j \in DOMAIN Notification : Notification[j].is_read

\* C13: a call mark_all_as_read(user) returns the number of notifications of
\* user that were unread before it, leaves get_unread_count(user) = 0, and
\* leaves the notifications of every other recipient as they were.
C13_MarkAllAsRead ==
    [][(response'.op = "mark_all_as_read" /\ response' # response) =>
          LET u == response'.user
          IN  /\ response'.result =
                     Cardinality({i \in DOMAIN Notification :
                                     /\ Notification[i].recipient = u
                                     /\ ~Notification[i].is_read})
              /\ get_unread_count(Notification', u) = 0
              /\ DOMAIN Notification' = DOMAIN Notification
              /\ \A i \in DOMAIN Notification :
                    Notification[i].recipient # u
                    => Notification'[i] = Notification[i]]_vars

\* A user marked two unread notifications at once while an unread
\* notification of another user stayed unread.
C13_Witness ==
    /\ response.op = "mark_all_as_read"
    /\ response.result = 2
    /\ get_unread_count(Notification, response.user) = 0
    /\ \E i \in DOMAIN Notification :
          /\ Notification[i].recipient # response.user
          /\ ~Notification[i].is_read

NewMails ==
    SubSeq(outbox', Len(outbox) + 1, Len(outbox'))

NewMailLog ==
    SubSeq(mail_log', Len(mail_log) + 1, Len(mail_log'))

\* C14: while an atomic block is open no mail is handed over and the mail of
\* every notification created in it waits for the commit; the commit hands
\* over exactly the waiting mails, in order; a rollback hands over nothing
\* and drops them; with no atomic block open the mail of a new notification
\* is handed over in the step that creates it; and every mail ever handed
\* over belongs to a notification row that exists.
C14_EmailAfterCommit ==
    [][/\ txn'.active =>
            /\ outbox' = outbox
            /\ \A n \in (DOMAIN Notification') \ (DOMAIN Notification) :
                  \E j \in DOMAIN run_on_commit' :
                      run_on_commit'[j].notification = n
       /\ (txn.active /\ ~txn'.active /\ txn'.ended = "rollback") =>
            /\ outbox' = outbox
            /\ run_on_commit' = <<>>
            /\ Notification' = txn.saved.Notification
       /\ (txn.active /\ ~txn'.active /\ txn'.ended = "commit") =>
            /\ NewMails = [j \in DOMAIN run_on_commit |->
                              run_on_commit[j].notification]
            /\ run_on_commit' = <<>>
            /\ Notification' = Notification
       /\ (~txn.active /\ ~txn'.active) =>
            /\ run_on_commit' = <<>>
            /\ \A n \in (DOMAIN Notification') \ (DOMAIN Notification) :
                  \E j \in DOMAIN NewMails : NewMails[j] = n
       /\ \A j \in DOMAIN outbox' : outbox'[j] \in DOMAIN Notification']_vars

\* Inside an open atomic block a notification was created whose mail is
\* waiting for the commit, after an earlier mail was handed over.
C14_Witness ==
    /\ txn.active
    /\ outbox # <<>>
    /\ \E j \in DOMAIN run_on_commit :
          /\ run_on_commit[j].notification \notin DOMAIN txn.saved.Notification
          /\ run_on_commit[j].notification \in DOMAIN Notification
          /\ \A i \in DOMAIN outbox : outbox[i] # run_on_commit[j].notification

\* C15: every send_mail call is logged once with its outcome, sent exactly
\* when the mail server was up; a failed one leaves the notification row and
\* its target in place, is not registered again and is not repeated, neither
\* in its step nor when the mail server comes back; and the immediate call
\* of send_notification_email returns False for it.
C15_FailedEmailSwallowed ==
    [][/\ Len(mail_log') = Len(outbox')
       /\ \A j \in DOMAIN mail_log' : mail_log'[j].notification = outbox'[j]
       /\ \A j \in DOMAIN NewMailLog : NewMailLog[j].sent = smtp
       /\ Len(NewMailLog) =
              IF txn.active /\ ~txn'.active
              THEN (IF txn'.ended = "commit" THEN Len(run_on_commit) ELSE 0)
              ELSE IF txn.active
              THEN 0
              ELSE Cardinality((DOMAIN Notification') \ (DOMAIN Notification))
                   + (IF response'.op = "send_notification_email"
                      THEN 1 ELSE 0)
       /\ \A j \in DOMAIN NewMailLog :
             ~NewMailLog[j].sent =>
                LET n == NewMailLog[j].notification
                IN  /\ n \in DOMAIN Notification'
                    /\ Notification'[n].content_type = "task"
                       => Notification'[n].object_id \in DOMAIN Task'
                    /\ Notification'[n].content_type = "comment"
                       => Notification'[n].object_id \in DOMAIN Comment'
                    /\ \A i \in DOMAIN run_on_commit' :
                          run_on_commit'[i].notification # n
       /\ smtp' # smtp => outbox' = outbox
       /\ (response'.op = "send_notification_email" /\ ~txn.active) =>
             /\ Len(NewMailLog) = 1
             /\ NewMailLog[1].notification = response'.notification
             /\ response'.result = smtp]_vars

\* send_notification_email returned False for a notification that is still
\* stored, after a mail that was sent.
C15_Witness ==
    /\ response.op = "send_notification_email"
    /\ response.result = FALSE
    /\ Len(mail_log) >= 2
    /\ mail_log[1].sent
    /\ ~mail_log[Len(mail_log)].sent
    /\ mail_log[Len(mail_log)].notification = response.notification
    /\ response.notification \in DOMAIN Notification

\* C16: generate_unique_username returns the cleaned username c when no
\* account has it; otherwise c followed by the smallest i of 1..999 for which
\* no account is named c followed by i; and a timestamp name exactly when c
\* and all of c1..c999 are taken.
C16_SmallestFreeSuffix ==
    response.op = "generate_unique_username" =>
        LET c     == response.username
            names == Usernames(User)
            free  == {i \in 1..999 : (c \o Decimal(i)) \notin names}
            stamp == Prefix(c, 15) \o <<"_">> \o strftime(response.now)
        IN  /\ c \notin names => response.result = c
            /\ (c \in names /\ free # {}) =>
                  \E i \in free :
                      /\ \A j \in 1..(i - 1) : j \notin free
                      /\ response.result = c \o Decimal(i)
            /\ (c \in names /\ free = {}) => response.result = stamp
            /\ response.result = stamp => (c \in names /\ free = {})

\* The name "a" and "a1" to "a11" are taken, and the call for "a" returned
\* "a12".
C16_Witness ==
    /\ response.op = "generate_unique_username"
    /\ response.username = <<"a">>
    /\ response.result = <<"a", "1", "2">>
    /\ {<<"a">>, <<"a", "1">>, <<"a", "1", "1">>} \subseteq Usernames(User)

\* C17: the name generate_unique_username returns is not the username of an
\* existing account.
C17_ReturnedNameUnused ==
    response.op = "generate_unique_username" =>
        response.result \notin Usernames(User)

\* The accounts a step has linked the login of the call to.
Connected ==
    {sa.user : sa \in SocialAccount' \ SocialAccount}

\* C18: a call of pre_social_login for a login that is not linked yet and
\* whose email is the email of exactly one account links the login to that
\* account, once, and creates no account.
C18_SingleMatchLinked ==
    [][response'.op = "pre_social_login" =>
          LET l       == response'.sociallogin
              matches == {i \in DOMAIN User : User[i].email = l.email}
          IN  (/\ ~(\E sa \in SocialAccount : sa.uid = l.uid)
               /\ l.email # ""
               /\ Cardinality(matches) = 1)
              => /\ SocialAccount' \ SocialAccount =
                        {[user |-> u, uid |-> l.uid] : u \in matches}
                 /\ SocialAccount \subseteq SocialAccount'
                 /\ User' = User]_vars

\* A login was linked to the only account with its email while another
\* account with another email exists.
C18_Witness ==
    /\ response.op = "pre_social_login"
    /\ ~response.is_existing
    /\ Len(User) >= 2
    /\ \E u \in DOMAIN User :
          /\ {i \in DOMAIN User : User[i].email = response.sociallogin.email} = {u}
          /\ [user |-> u, uid |-> response.sociallogin.uid] \in SocialAccount
    /\ Cardinality(SocialAccount) = 1

C20_OnlyVerifiedEmailLinked ==
    [][response'.op = "pre_social_login" =>
          LET l == response'.sociallogin
          IN  (l.email = "" \/ ~l.verified_email)
              => SocialAccount' = SocialAccount]_vars

\* C21: a step that deletes a task leaves no comment of the task, no
\* activity log of the task, and no file attached to the task or to a comment
\* the task had; and no state holds a comment, a log or a file whose task or
\* comment is missing.
C21_TaskDeletionLeavesNoOrphans ==
    [][\A k \in DOMAIN Task \ DOMAIN Task' :
          /\ \A c \in DOMAIN Comment' : Comment'[c].task # k
          /\ \A i \in DOMAIN ActivityLog' : ActivityLog'[i].task # k
          /\ \A f \in DOMAIN FileUpload' :
                /\ ~(/\ FileUpload'[f].content_type = "task"
                     /\ FileUpload'[f].object_id = k)
                /\ ~(/\ FileUpload'[f].content_type = "comment"
                     /\ \E c \in DOMAIN Comment :
                           /\ Comment[c].task = k
                           /\ FileUpload'[f].object_id = c)
          /\ \A c \in DOMAIN Comment' : Comment'[c].task \in DOMAIN Task'
          /\ \A f \in DOMAIN FileUpload' :
                FileUpload'[f].object_id \in
                    (IF FileUpload'[f].content_type = "task"
                     THEN DOMAIN Task' ELSE DOMAIN Comment')]_vars

\* task_delete has removed a task together with its three comments, none of
\* which had been deleted before, and their log entries; a file had been
\* uploaded to one of the comments, and no comment and no file is left.
C21_Witness ==
    /\ response.op = "task_delete"
    /\ response.deleted.Comment = 3
    /\ response.deleted.ActivityLog = 4
    /\ last_id.file = 1
    /\ last_id.comment = 3
    /\ Comment = <<>>
    /\ FileUpload = <<>>
    /\ response.pk \notin DOMAIN Task

\* Comment x is the comment root or a reply to it at some depth.
RECURSIVE IsUnder(_, _, _)
IsUnder(C, x, root) ==
    \/ x = root
    \/ /\ C[x].parent # None
       /\ C[x].parent \in DOMAIN C
       /\ IsUnder(C, C[x].parent, root)

\* C22: a call of comment_delete removes exactly the comments reachable from
\* the deleted one through parent links and exactly the files attached to a
\* removed comment; every other comment and file stays as it was.
C22_CommentDeletionCascades ==
    [][response'.op = "comment_delete" =>
          LET removed == {x \in DOMAIN Comment :
                             IsUnder(Comment, x, response'.pk)}
          IN  /\ DOMAIN Comment' = DOMAIN Comment \ removed
              /\ \A x \in DOMAIN Comment' : Comment'[x] = Comment[x]
              /\ DOMAIN FileUpload' =
                     {f \in DOMAIN FileUpload :
                         ~(/\ FileUpload[f].content_type = "comment"
                           /\ FileUpload[f].object_id \in removed)}
              /\ \A f \in DOMAIN FileUpload' : FileUpload'[f] = FileUpload[f]
              /\ Task' = Task
              /\ ActivityLog' = ActivityLog]_vars

\* comment_delete of comment 2 has removed it and its reply 3 and has left
\* comment 1, the parent of comment 2, in place; a file had been uploaded and
\* none is left.
C22_Witness ==
    /\ response.op = "comment_delete"
    /\ response.pk = 2
    /\ response.deleted.Comment = 2
    /\ DOMAIN Comment = {1}
    /\ last_id.comment = 3
    /\ last_id.file = 1
    /\ FileUpload = <<>>

\* The activity log of task k.
LogOf(log, k) ==
    SelectSeq(log, LAMBDA e : e.task = k)

\* C23: the log of every task starts with its only "Task created" entry; a
\* step keeps the log of every task it does not delete as a prefix, starts
\* the log of a task it inserts with "Task created", and appends exactly one
\* entry for a task whose row it changes, for a comment it adds and for a
\* file it attaches to the task.
C23_ActivityLogAppendOnly ==
    /\ [](\A k \in DOMAIN Task :
             LET log == LogOf(ActivityLog, k)
             IN  /\ Len(log) >= 1
                 /\ \A i \in DOMAIN log :
                       (log[i].action = "Task created") <=> (i = 1))
    /\ [][\A k \in DOMAIN Task' :
             LET old == IF k \in DOMAIN Task
                        THEN LogOf(ActivityLog, k) ELSE <<>>
                 new == LogOf(ActivityLog', k)
                 comments == {c \in DOMAIN Comment' \ DOMAIN Comment :
                                 Comment'[c].task = k}
                 files == {f \in DOMAIN FileUpload' \ DOMAIN FileUpload :
                              /\ FileUpload'[f].content_type = "task"
                              /\ FileUpload'[f].object_id = k}
                 written == IF k \notin DOMAIN Task \/ Task'[k] # Task[k]
                            THEN 1 ELSE 0
             IN  /\ Len(new) >= Len(old)
                 /\ SubSeq(new, 1, Len(old)) = old
                 /\ Len(new) - Len(old) >=
                        written + Cardinality(comments) + Cardinality(files)
                 /\ Len(new) - Len(old) <= 1]_vars

C25_AssigneeIsTeamMember ==
    \A k \in DOMAIN Task :
        Task[k].assigned_to # None =>
            \E m \in TeamMembership :
                m.team = Task[k].team /\ m.user = Task[k].assigned_to

\* C26: in every state, for every user and task, the edit check of
\* task_update passes exactly if the user holds change_task on the task, and
\* the delete check of task_delete passes exactly if the user holds
\* delete_task on it.
C26_GrantTableAuthoritative ==
    \A u \in Users, k \in DOMAIN Task :
        /\ can_edit(u, k) <=>
               [user |-> u, perm |-> "change_task", obj |-> k]
                   \in UserObjectPermission
        /\ can_delete(u, k) <=>
               [user |-> u, perm |-> "delete_task", obj |-> k]
                   \in UserObjectPermission

\* C27: every team has a membership with role owner, and while a team has
\* one owner no remove_member request for that owner and no
\* change_member_role request that makes that owner a member, by whomever,
\* can take effect.
C27_LastOwnerKept ==
    \A t \in DOMAIN Team :
        LET owners == {m \in TeamMembership : m.team = t /\ m.role = "owner"}
        IN  /\ owners # {}
            /\ Cardinality(owners) = 1 =>
                   \A m \in owners, req \in Users :
                       /\ ~ENABLED remove_member(req, t, m.user)
                       /\ ~ENABLED change_member_role(req, t, m.user, "member")

\* The creator of team 1 was made a member after user 2 had become an owner:
\* user 2 is the only owner left, next to two members.
C27_Witness ==
    /\ 1 \in DOMAIN Team
    /\ Team[1].created_by = 1
    /\ {m \in TeamMembership : m.team = 1} =
           {[team |-> 1, user |-> 1, role |-> "member"],
            [team |-> 1, user |-> 2, role |-> "owner"],
            [team |-> 1, user |-> 3, role |-> "member"]}

\* C28: when no remove_member or change_member_role request is under way
\* any more, every team has a membership with role owner.
C28_LastOwnerKeptUnderInterleaving ==
    requests = {} =>
        \A t \in DOMAIN Team :
            \E m \in TeamMembership : m.team = t /\ m.role = "owner"

\* C29: a step that deletes a task, a comment or a file, or that saves a
\* task on behalf of a user, is a request of a user who is a member of the
\* team of that task at the time.
C29_NonMembersChangeNothing ==
    [][/\ \A k \in DOMAIN Task \ DOMAIN Task' :
             /\ response'.op = "task_delete"
             /\ \E m \in TeamMembership :
                   m.team = Task[k].team /\ m.user = response'.user
       /\ response'.op = "comment_delete" =>
             \E m \in TeamMembership :
                 /\ m.team = Task[Comment[response'.pk].task].team
                 /\ m.user = response'.user
       /\ response'.op = "file_delete" =>
             \E m \in TeamMembership :
                 /\ m.team = Task[TaskOfFile(response'.pk)].team
                 /\ m.user = response'.user
       /\ Len(ActivityLog') = Len(ActivityLog) + 1 =>
             LET e == ActivityLog'[Len(ActivityLog')]
             IN  e.action = "Task updated" =>
                     \E m \in TeamMembership :
                         m.team = Task[e.task].team /\ m.user = e.user]_vars

\* The number of send_mail calls made for notification n.
Attempts(n) ==
    Cardinality({i \in DOMAIN mail_log : mail_log[i].notification = n})

\* C30: every send_mail call is for a stored notification of one of the
\* three types; with no atomic block open every stored notification has had
\* exactly one call; while one is open the notifications written in it have
\* had none and those written before it exactly one.
C30_OneEmailPerCommittedNotification ==
    /\ \A i \in DOMAIN mail_log :
          /\ mail_log[i].notification \in DOMAIN Notification
          /\ Notification[mail_log[i].notification].notification_type
                 \in {"mention", "assignment", "file_uploaded"}
    /\ \A n \in DOMAIN Notification :
          Attempts(n) =
              IF txn.active /\ n > Len(txn.saved.Notification) THEN 0 ELSE 1

\* An admin change view has committed a comment that mentions two users while
\* the mail server was down: two mention notifications are stored and each
\* has one, failed, send_mail call.
C30_Witness ==
    /\ txn.ended = "commit"
    /\ Len(Notification) = 2
    /\ \A n \in DOMAIN Notification :
          /\ Notification[n].notification_type = "mention"
          /\ Notification[n].object_id = last_id.comment
    /\ Notification[1].recipient # Notification[2].recipient
    /\ mail_log = <<[notification |-> 1, sent |-> FALSE],
                    [notification |-> 2, sent |-> FALSE]>>

====
